---- MODULE Spec2Model ----
(***************************************************************************)
(* Model of infra/scripts/verify.sh (Phase 1b, local CI verification) of   *)
(* python-infra-audit-cc: the git stash/restore guard, the EXIT trap, the  *)
(* parallel tool launches, the join and the report assembly.               *)
(*                                                                         *)
(* The working tree is two paths of a project: one file tracked by git and *)
(* one path that is not in HEAD and not ignored.  A content is "none"      *)
(* (no file), "head" (the committed content), "user" (an uncommitted edit  *)
(* of the user) or "tool" (written by a tool during the run).              *)
(*                                                                         *)
(* Parts of the package that do not interact with a run's stash guard are  *)
(* followed on their own, each with its specification: the capture of one  *)
(* tool's output (SpecCapture), the version cross-reference of Group 3     *)
(* (SpecVersions), two runs of verify.sh on one Fact Sheet (SpecTwoRuns),  *)
(* infra/scripts/detect.sh (SpecDetect) and the Claude Code install of     *)
(* bin/install.js (SpecInstall).  While one of them is followed the        *)
(* variables of the others keep their idle values.                         *)
(***************************************************************************)
EXTENDS Integers, Sequences, FiniteSets, TLC

\* ---------------------------------------------------------------- bounds

\* Number of tool groups (ruff, pyright, pre-commit, tests) a Fact Sheet
\* mentions, as an area that is present or as a tool installed in the venv.
MaxGroups == 2

\* How far beyond the line budget the raw output of a tool goes.
MaxExtraLines == 3

\* Number of workflow files in .github/workflows.
MaxWorkflows == 2

\* Number of installed files that are followed.
MaxInstFiles == 2

\* Number of entries of hooks.SessionStart in settings.json before the install.
MaxHooks == 2

\* ------------------------------------------------------- program constants

\* verify.sh:218  'timeout' if ec == 124; the exit status of coreutils timeout.
TIMEOUT_EXIT == 124

\* verify.sh:87-88, 137-138: -gt 30, head -30, tail -30
LINE_BUDGET == 30

\* ------------------------------------------------------------ vocabulary

Tools == {"ruff_check", "ruff_format", "pyright", "pre_commit", "test_collect", "pytest"}

\* The background jobs verify.sh starts with &: one per run_tool call, the
\* Group 2 subshell (test_collect then pytest) and the Group 3 subshell.
Jobs == Tools \cup {"group3"}

TRACKED == "tracked.py"
NEWPATH == "new.py"
Files == {TRACKED, NEWPATH}

Groups == {"ruff", "pyright", "pre_commit", "tests"}
AreaFlag == [g \in Groups |-> CASE g = "ruff" -> "HAS_RUFF"
                                [] g = "pyright" -> "HAS_PYRIGHT"
                                [] g = "pre_commit" -> "HAS_PRECOMMIT"
                                [] g = "tests" -> "HAS_TESTS"]
VenvFlag == [g \in Groups |-> CASE g = "ruff" -> "RUFF_IN_VENV"
                                [] g = "pyright" -> "PYRIGHT_IN_VENV"
                                [] g = "pre_commit" -> "PRECOMMIT_IN_VENV"
                                [] g = "tests" -> "PYTEST_IN_VENV"]
AreaFlags == {AreaFlag[g] : g \in Groups}
VenvFlags == {VenvFlag[g] : g \in Groups}
Flags == {"HAS_VENV", "HAS_GIT"} \cup AreaFlags \cup VenvFlags

\* Exit codes a tool process may end with by itself: success, a failure, and
\* the value that coincides with the status of coreutils timeout.
ExitCodes == {0, 1, TIMEOUT_EXIT}

\* The tool that rewrites project files: pre-commit run --all-files auto-fixes
\* them (verify.sh:9-10, 113).  The other invocations are check-mode commands
\* (ruff check, ruff format --check, pyright, pytest).
Mutating == {"pre_commit"}

VARIABLES
  detectFound,   \* the file named by $1 exists (verify.sh:14)
  fs,            \* the shell flags parsed from the detection JSON (verify.sh:21-41)
  idx,           \* git index: content staged for TRACKED
  wt,            \* working tree: content of each path
  stash,         \* git stash stack, newest first
  idx0, wt0, stash0,   \* index, tree and stash stack when verify.sh started
  pc,            \* position of the main script
  NEEDS_STASH, STASH_CREATED,
  trapSet,       \* trap cleanup EXIT has been executed (verify.sh:76)
  cleanupRan,    \* cleanup() has been executed
  gitOps,        \* git commands issued by verify.sh itself
  job,           \* state of each background job
  launches,      \* how many times each tool was started
  via,           \* the executable each tool was started through
  exitFile,      \* $RESULTS_DIR/<name>.exit: <<>> when absent, <<code>> otherwise
  procExit,      \* exit code each tool process ended with by itself
  timedOut,      \* tools whose process was ended by timeout 120
  wrote,         \* tools that wrote to the working tree
  probe,         \* what the pyright fallback probes found (verify.sh:105,107)
  guardFailed,   \* a git stash push or git stash pop of this run failed
  report,        \* what verify.sh printed on stdout
  exitStatus,    \* <<>> while running, <<status>> once the script has ended
  \* -- output capture of one tool (verify.sh:80-92, 119-140, 203-221)
  capName,       \* the tool whose output is captured
  rawOut,        \* what the tool printed on stdout and stderr
  outFile,       \* $RESULTS_DIR/<name>.out: <<>> when absent
  repOutput,     \* the output field of the tool's report entry: <<>> before the report
  cpc,           \* position of the capture
  \* -- version cross-reference (verify.sh:146-175, 247-263)
  versionIn,     \* LOCAL_RUFF_VER, HAS_PRECOMMIT and the files Group 3 reads
  g3File,        \* $RESULTS_DIR/precommit_ruff_ver and ci_ruff_ver: <<>> when absent
  version_mismatches,
  vpc,           \* position of the cross-reference
  \* -- two runs of verify.sh on one Fact Sheet (verify.sh:96-175)
  runFs,         \* the Fact Sheet both runs are given
  runRes,        \* per run: <<>>, or what it launched and which files it read
  \* -- detect.sh
  proj,          \* the project detect.sh is run in
  factSheet,     \* what detect.sh printed on stdout: <<>> when nothing
  dpc,           \* position of detect.sh
  dexit,         \* <<>> while running, <<status>> once detect.sh has ended
  \* -- bin/install.js, install for Claude Code
  configDir,     \* content of each installed file in the config directory
  manifestFile,  \* infra-audit-manifest.json
  patchesDir,    \* infra-audit-local-patches/: the backup of each file
  settingsFile,  \* settings.json
  inst0,         \* the four of them when the installer started
  ipc,           \* position of the installer
  iexit,         \* <<>> while running, <<status>> once the installer has ended
  \* -- bin/install.js, installs and uninstalls one after the other
  lc,            \* the config directory
  lc0,           \* the config directory before the first of them
  lcOps,         \* how many installs and uninstalls have run, and the last of them
  \* -- the units of one run of verify.sh and the files they read (verify.sh:96-143)
  raceIn,        \* the Fact Sheet, the pyright probes and the project files
  race,          \* the tree, the jobs, what each tool checked, and the report
  \* -- the coverage percentage of the pytest entry (verify.sh:203-245)
  cov,           \* pytest.exit, pytest.out, and the entry's coverage_pct
  \* -- verify.sh run on the Fact Sheet detect.sh printed (audit.md Phase 1 and 2)
  pyrightRun,    \* the executable verify.sh starts pyright through
  \* -- the area-audit sub-agents that run beside verify.sh (audit.md:416-430)
  agentSaw,      \* the trees their reads met: that of the entry, another one
  \* -- what git stash does not save (verify.sh:55-60)
  subDirty       \* a submodule of the project has uncommitted changes

vars == <<detectFound, fs, idx, wt, stash, idx0, wt0, stash0, pc, NEEDS_STASH,
          STASH_CREATED, trapSet, cleanupRan, gitOps, job, launches, via,
          exitFile, procExit, timedOut, wrote, probe, guardFailed, report,
          exitStatus, capName, rawOut, outFile, repOutput, cpc,
          versionIn, g3File, version_mismatches, vpc, runFs, runRes,
          proj, factSheet, dpc, dexit,
          configDir, manifestFile, patchesDir, settingsFile, inst0, ipc, iexit,
          lc, lc0, lcOps, raceIn, race, cov, pyrightRun, agentSaw, subDirty>>

treeVars == <<idx, wt, stash>>
captureVars == <<capName, rawOut, outFile, repOutput, cpc>>
\* what a run of verify.sh never changes: the snapshot of its entry state, its
\* input, and the parts of the package that are modelled on their own
versionVars == <<versionIn, g3File, version_mismatches, vpc>>
twoRunVars == <<runFs, runRes>>
detectVars == <<proj, factSheet, dpc, dexit>>
installVars == <<configDir, manifestFile, patchesDir, settingsFile, inst0, ipc, iexit>>
lifecycleVars == <<lc, lc0, lcOps>>
raceVars == <<raceIn, race>>
lateVars == <<pyrightRun, agentSaw, subDirty>>
moreVars == <<lifecycleVars, raceVars, cov, lateVars>>
ghostVars == <<idx0, wt0, stash0, detectFound, fs, captureVars, versionVars, twoRunVars,
               detectVars, installVars, moreVars>>
jobVars == <<job, launches, via, exitFile, procExit, timedOut, wrote, probe>>
guardVars == <<NEEDS_STASH, STASH_CREATED, trapSet, cleanupRan, gitOps>>

\* ------------------------------------------------------------ Fact Sheet

\* detect.sh probes tool versions only inside an existing .venv (detect.sh:70-79),
\* so no *_IN_VENV flag is set without HAS_VENV.
FactSheets ==
  {f \in [Flags -> BOOLEAN] :
     /\ (~f["HAS_VENV"] => \A v \in VenvFlags : ~f[v])
     /\ Cardinality({g \in Groups : f[AreaFlag[g]] \/ f[VenvFlag[g]]}) <= MaxGroups}

\* Faulty variant of ShouldSkip: the early exit tests a second flag as well.
ShouldSkipWrongFlag(f) == f["HAS_VENV"] = FALSE /\ f["HAS_GIT"] = FALSE

\* verify.sh:44
ShouldSkip(f) == f["HAS_VENV"] = FALSE

\* verify.sh:45
SkippedReport == [kind |-> "skipped", skipped |-> TRUE, reason |-> "no venv detected"]

NoReport == [kind |-> "none"]
ErrorReport == [kind |-> "error"]

\* ------------------------------------------------------------------- git

\* Faulty variant of CleanTree: the stash is pushed without --include-untracked
\* and the new file stays in the tree.
CleanTreeWithUntracked == [f \in Files |-> IF f = TRACKED THEN "head" ELSE "user"]

CleanTree == [f \in Files |-> IF f = TRACKED THEN "head" ELSE "none"]

\* git diff --quiet (verify.sh:55): the tracked file differs from the index
GitDiffDirty(i, w) == w[TRACKED] # i

\* git diff --cached --quiet (verify.sh:56): the index differs from HEAD
GitDiffCachedDirty(i, w) == i # "head"

\* git ls-files --others --exclude-standard (verify.sh:57)
GitUntracked(i, w) == w[NEWPATH] # "none"

\* verify.sh:55-57
NeedsStash(i, w) == GitDiffDirty(i, w) \/ GitDiffCachedDirty(i, w) \/ GitUntracked(i, w)

\* git stash push --include-untracked (verify.sh:60), when it succeeds
StashEntry(i, w) == [msg |-> "infra-audit-verify", idx |-> i, wt |-> w]

\* git checkout . (verify.sh:68): tracked paths get the content of the index
GitCheckout(i, w) == [w EXCEPT ![TRACKED] = i]

\* git clean -fd (verify.sh:69): paths that are not tracked and not ignored go
GitClean(i, w) == [w EXCEPT ![NEWPATH] = "none"]

\* Faulty variant of CleanupResets: cleanup() resets the tree whether or not
\* the project is under version control.
CleanupResetsAlways(f, created) == TRUE

\* cleanup() destroys the tree only under this condition (verify.sh:67)
CleanupResets(f, created) == f["HAS_GIT"]

\* cleanup() pops the stash only under this condition (verify.sh:70)
CleanupPops(f, created) == f["HAS_GIT"] /\ created

\* git stash pop without --index (verify.sh:71), when it succeeds: the saved
\* working-tree contents come back, staged content is not staged again.
GitStashPop(e, w) == [f \in Files |-> IF e.wt[f] # CleanTree[f] THEN e.wt[f] ELSE w[f]]

\* cleanup() (verify.sh:66-75) on index i, tree w and stash stack s; popOk is
\* whether git stash pop succeeds.  The result is the tree state it leaves.
Cleanup(f, created, i, w, s, popOk) ==
  LET w1 == IF CleanupResets(f, created) THEN GitClean(i, GitCheckout(i, w)) ELSE w
      pops == CleanupPops(f, created) /\ popOk /\ Len(s) > 0
  IN [idx |-> i,
      wt |-> IF pops THEN GitStashPop(Head(s), w1) ELSE w1,
      stash |-> IF pops THEN Tail(s) ELSE s,
      ops |-> (IF CleanupResets(f, created) THEN {"checkout", "clean"} ELSE {})
                \cup (IF CleanupPops(f, created) THEN {"stash_pop"} ELSE {}),
      failed |-> CleanupPops(f, created) /\ ~pops]

\* ------------------------------------------------------------------ Init

\* no output capture is followed
CaptureIdle ==
  /\ capName = "none" /\ rawOut = <<>> /\ outFile = <<>> /\ repOutput = <<>> /\ cpc = "off"

\* no version cross-reference is followed
VersionsIdle ==
  /\ versionIn = <<>> /\ g3File = <<>> /\ version_mismatches = <<>> /\ vpc = "off"

\* no pair of runs, no detect.sh and no installer is followed
TwoRunsIdle == runFs = <<>> /\ runRes = <<>>
DetectIdle == proj = <<>> /\ factSheet = <<>> /\ dpc = "off" /\ dexit = <<>>
InstallIdle ==
  /\ configDir = <<>> /\ manifestFile = <<>> /\ patchesDir = <<>> /\ settingsFile = <<>>
  /\ inst0 = <<>> /\ ipc = "off" /\ iexit = <<>>
LifecycleIdle == lc = <<>> /\ lc0 = <<>> /\ lcOps = <<>>
RaceIdle == raceIn = <<>> /\ race = <<>>
CoverageIdle == cov = <<>>
LateIdle == pyrightRun = "off" /\ agentSaw = {} /\ subDirty = FALSE
MoreIdle == LifecycleIdle /\ RaceIdle /\ CoverageIdle /\ LateIdle

\* The state verify.sh starts in, but for the stash stack and the submodules
InitRun ==
  /\ CaptureIdle
  /\ VersionsIdle
  /\ TwoRunsIdle /\ DetectIdle /\ InstallIdle
  /\ detectFound \in BOOLEAN
  /\ fs \in FactSheets
  /\ (~detectFound => fs = [x \in Flags |-> FALSE])
  /\ idx \in (IF fs["HAS_GIT"] THEN {"head", "user"} ELSE {"head"})
  /\ wt \in {w \in [Files -> {"none", "head", "user"}] :
               w[TRACKED] \in {"head", "user"} /\ w[NEWPATH] \in {"none", "user"}}
  /\ idx0 = idx /\ wt0 = wt
  /\ pc = "start"
  /\ NEEDS_STASH = FALSE /\ STASH_CREATED = FALSE
  /\ trapSet = FALSE /\ cleanupRan = FALSE
  /\ gitOps = {}
  /\ job = [j \in Jobs |-> "idle"]
  /\ launches = [n \in Tools |-> 0]
  /\ via = [n \in Tools |-> "none"]
  /\ exitFile = [n \in Tools |-> <<>>]
  /\ procExit = [n \in Tools |-> <<>>]
  /\ timedOut = {}
  /\ wrote = {}
  /\ probe = [node |-> FALSE, npx |-> FALSE]
  /\ guardFailed = FALSE
  /\ report = NoReport
  /\ exitStatus = <<>>

\* a project without submodules and with an empty stash stack
Init ==
  /\ InitRun
  /\ MoreIdle
  /\ stash = <<>>
  /\ stash0 = stash

\* ------------------------------------------------------- the main script

\* verify.sh:12-17: the detection JSON must exist
CheckArg ==
  /\ pc = "start"
  /\ IF detectFound
       THEN /\ pc' = "venv"
            /\ UNCHANGED <<report, exitStatus>>
       ELSE /\ pc' = "done"
            /\ report' = ErrorReport
            /\ exitStatus' = <<1>>
  /\ UNCHANGED <<treeVars, ghostVars, jobVars, guardVars, guardFailed>>

\* verify.sh:43-47: no venv, nothing to verify
VenvCheck ==
  /\ pc = "venv"
  /\ IF ShouldSkip(fs)
       THEN /\ pc' = "done"
            /\ report' = SkippedReport
            /\ exitStatus' = <<0>>
       ELSE /\ pc' = "guard"
            /\ UNCHANGED <<report, exitStatus>>
  /\ UNCHANGED <<treeVars, ghostVars, jobVars, guardVars, guardFailed>>

\* verify.sh:51-62: the stash guard.  git stash push may fail (a repository
\* without an initial commit, an index with unmerged paths, a locked index).
\* git diff --quiet also ends with 1 for uncommitted changes inside a
\* submodule, which git stash push does not save: with nothing else to save
\* it ends with 0 and pushes no entry.
Guard ==
  /\ pc = "guard"
  /\ pc' = "mktemp"
  /\ IF fs["HAS_GIT"]
       THEN /\ NEEDS_STASH' = (NeedsStash(idx, wt) \/ subDirty)
            /\ IF NeedsStash(idx, wt) \/ subDirty
                 THEN \E pushOk \in BOOLEAN :
                        /\ gitOps' = gitOps \cup {"diff", "ls_files", "stash_push"}
                        /\ STASH_CREATED' = pushOk
                        /\ guardFailed' = ~pushOk
                        /\ IF pushOk /\ NeedsStash(idx, wt)
                             THEN /\ stash' = <<StashEntry(idx, wt)>> \o stash
                                  /\ idx' = "head"
                                  /\ wt' = CleanTree
                             ELSE UNCHANGED treeVars
                 ELSE /\ gitOps' = gitOps \cup {"diff", "ls_files"}
                      /\ UNCHANGED <<STASH_CREATED, guardFailed, treeVars>>
       ELSE UNCHANGED <<NEEDS_STASH, STASH_CREATED, guardFailed, gitOps, treeVars>>
  /\ UNCHANGED <<ghostVars, jobVars, trapSet, cleanupRan, report, exitStatus>>

\* verify.sh:64
Mktemp ==
  /\ pc = "mktemp"
  /\ pc' = "trap"
  /\ UNCHANGED <<treeVars, ghostVars, jobVars, guardVars, guardFailed, report, exitStatus>>

\* verify.sh:76
SetTrap ==
  /\ pc = "trap"
  /\ pc' = "ruff"
  /\ trapSet' = TRUE
  /\ UNCHANGED <<treeVars, ghostVars, jobVars, NEEDS_STASH, STASH_CREATED, cleanupRan,
                 gitOps, guardFailed, report, exitStatus>>

\* ------------------------------------------------- launching the tools

\* verify.sh:97
LaunchesRuff(f) == f["HAS_RUFF"] /\ f["RUFF_IN_VENV"]

\* Faulty variants of PyrightCmd: npx is used whenever the area is present;
\* node_modules is preferred to the venv.
PyrightCmdNpxOnly(f, node, npx) == IF f["HAS_PYRIGHT"] THEN "npx" ELSE "none"
PyrightCmdNodeFirst(f, node, npx) ==
  IF ~f["HAS_PYRIGHT"] THEN "none"
  ELSE IF node THEN "node_modules"
  ELSE IF f["PYRIGHT_IN_VENV"] THEN "venv"
  ELSE IF npx THEN "npx"
  ELSE "none"

\* verify.sh:102-110: the executable pyright is started through, "none" when
\* it is not started; node and npx are the results of the two probes
PyrightCmd(f, node, npx) ==
  IF ~f["HAS_PYRIGHT"] THEN "none"
  ELSE IF f["PYRIGHT_IN_VENV"] THEN "venv"
  ELSE IF node THEN "node_modules"
  ELSE IF npx THEN "npx"
  ELSE "none"

\* verify.sh:112
LaunchesPreCommit(f) == f["HAS_PRECOMMIT"] /\ f["PRECOMMIT_IN_VENV"]

\* Faulty variant of LaunchesTests: the availability test is forgotten.
LaunchesTestsAreaOnly(f) == f["HAS_TESTS"]

\* verify.sh:117
LaunchesTests(f) == f["HAS_TESTS"] /\ f["PYTEST_IN_VENV"]

\* Faulty variants of RunsPytestAfter: the execution step runs whatever the
\* collection did; it runs after a collection that failed.
RunsPytestAlways(collect_exit) == TRUE
RunsPytestAfterFailure(collect_exit) == collect_exit # 0

\* verify.sh:124: the execution step follows only a collection that exited 0
RunsPytestAfter(collect_exit) == collect_exit = 0

\* name ... & : the tools of S become running background jobs
Started(S, cmd) ==
  /\ job' = [j \in Jobs |-> IF j \in S THEN "running" ELSE job[j]]
  /\ launches' = [n \in Tools |-> IF n \in S THEN launches[n] + 1 ELSE launches[n]]
  /\ via' = [n \in Tools |-> IF n \in S THEN cmd ELSE via[n]]

mainFrame == <<treeVars, ghostVars, guardVars, guardFailed, report, exitStatus,
               exitFile, procExit, timedOut, wrote>>

\* verify.sh:97-100
LaunchRuff ==
  /\ pc = "ruff"
  /\ pc' = "pyright"
  /\ IF LaunchesRuff(fs)
       THEN Started({"ruff_check", "ruff_format"}, "venv")
       ELSE UNCHANGED <<job, launches, via>>
  /\ UNCHANGED <<mainFrame, probe>>

\* verify.sh:102-110
LaunchPyright ==
  /\ pc = "pyright"
  /\ pc' = "pre_commit"
  /\ \E node \in BOOLEAN, npx \in BOOLEAN :
       /\ probe' = IF fs["HAS_PYRIGHT"] /\ ~fs["PYRIGHT_IN_VENV"]
                     THEN [node |-> node, npx |-> ~node /\ npx]
                     ELSE probe
       /\ IF PyrightCmd(fs, node, npx) # "none"
            THEN Started({"pyright"}, PyrightCmd(fs, node, npx))
            ELSE UNCHANGED <<job, launches, via>>
  /\ UNCHANGED mainFrame

\* verify.sh:112-114
LaunchPreCommit ==
  /\ pc = "pre_commit"
  /\ pc' = "tests"
  /\ IF LaunchesPreCommit(fs)
       THEN Started({"pre_commit"}, "venv")
       ELSE UNCHANGED <<job, launches, via>>
  /\ UNCHANGED <<mainFrame, probe>>

\* verify.sh:117-120: the Group 2 subshell starts with the collection step
LaunchTests ==
  /\ pc = "tests"
  /\ pc' = "group3"
  /\ IF LaunchesTests(fs)
       THEN Started({"test_collect"}, "venv")
       ELSE UNCHANGED <<job, launches, via>>
  /\ UNCHANGED <<mainFrame, probe>>

\* verify.sh:146, 190: the Group 3 subshell is always started
LaunchGroup3 ==
  /\ pc = "group3"
  /\ pc' = "wait"
  /\ job' = [job EXCEPT !["group3"] = "running"]
  /\ UNCHANGED <<mainFrame, launches, via, probe>>

\* ------------------------------------------------------ background jobs
\* The run is followed until the script has ended (pc = "done").

RunTools == {"ruff_check", "ruff_format", "pyright", "pre_commit"}

\* Faulty variant of HasTimeout: no invocation is wrapped in timeout.
HasTimeoutNone(n) == FALSE

\* verify.sh:127,130,133: the only invocation wrapped in `timeout 120`
HasTimeout(n) == n = "pytest"

jobFrame == <<pc, treeVars, ghostVars, guardVars, guardFailed, report, exitStatus>>

\* verify.sh:84-85: a run_tool process ends by itself with code c
ToolExit(n, c) ==
  /\ n \in RunTools
  /\ pc # "done"
  /\ job[n] = "running"
  /\ job' = [job EXCEPT ![n] = "done"]
  /\ exitFile' = [exitFile EXCEPT ![n] = <<c>>]
  /\ procExit' = [procExit EXCEPT ![n] = <<c>>]
  /\ UNCHANGED <<jobFrame, launches, via, timedOut, wrote, probe>>

\* verify.sh:107-108: `command -v npx` finds npx, not pyright, and
\* `npx --no-install pyright` runs pyright only when it is installed where
\* npx looks for it; otherwise npx ends with status 1 and pyright has not run
NpxFails ==
  /\ pc # "done"
  /\ job["pyright"] = "running"
  /\ via["pyright"] = "npx"
  /\ job' = [job EXCEPT !["pyright"] = "done"]
  /\ exitFile' = [exitFile EXCEPT !["pyright"] = <<1>>]
  /\ UNCHANGED <<jobFrame, launches, via, procExit, timedOut, wrote, probe>>

\* verify.sh:120-135: the collection ends with code c; on 0 the subshell
\* goes on with the execution step, otherwise the subshell is finished
CollectExit(c) ==
  /\ pc # "done"
  /\ job["test_collect"] = "running"
  /\ exitFile' = [exitFile EXCEPT !["test_collect"] = <<c>>]
  /\ procExit' = [procExit EXCEPT !["test_collect"] = <<c>>]
  /\ IF RunsPytestAfter(c)
       THEN /\ job' = [job EXCEPT !["test_collect"] = "done", !["pytest"] = "running"]
            /\ launches' = [launches EXCEPT !["pytest"] = @ + 1]
            /\ via' = [via EXCEPT !["pytest"] = "venv"]
       ELSE /\ job' = [job EXCEPT !["test_collect"] = "done"]
            /\ UNCHANGED <<launches, via>>
  /\ UNCHANGED <<jobFrame, timedOut, wrote, probe>>

\* verify.sh:127-134: pytest ends by itself within 120 s; timeout passes its
\* exit code on
PytestExit(c) ==
  /\ pc # "done"
  /\ job["pytest"] = "running"
  /\ job' = [job EXCEPT !["pytest"] = "done"]
  /\ exitFile' = [exitFile EXCEPT !["pytest"] = <<c>>]
  /\ procExit' = [procExit EXCEPT !["pytest"] = <<c>>]
  /\ UNCHANGED <<jobFrame, launches, via, timedOut, wrote, probe>>

\* A tool wrapped in timeout 120 is still running after 120 s: timeout ends
\* it and exits with TIMEOUT_EXIT (verify.sh:127-134)
ToolTimeout(n) ==
  /\ pc # "done"
  /\ n \in Tools
  /\ HasTimeout(n)
  /\ job[n] = "running"
  /\ job' = [job EXCEPT ![n] = "done"]
  /\ exitFile' = [exitFile EXCEPT ![n] = <<TIMEOUT_EXIT>>]
  /\ timedOut' = timedOut \cup {n}
  /\ UNCHANGED <<jobFrame, launches, via, procExit, wrote, probe>>

\* A running tool that writes to the project rewrites or creates a file
ToolWrite(n, f) ==
  /\ n \in Mutating
  /\ pc # "done"
  /\ job[n] = "running"
  /\ wt[f] # "tool"
  /\ wt' = [wt EXCEPT ![f] = "tool"]
  /\ wrote' = wrote \cup {n}
  /\ UNCHANGED <<pc, idx, stash, ghostVars, guardVars, guardFailed, report, exitStatus,
                 job, launches, via, exitFile, procExit, timedOut, probe>>

\* verify.sh:146-190: Group 3 reads the configuration files
Group3Run ==
  /\ pc # "done"
  /\ job["group3"] = "running"
  /\ job' = [job EXCEPT !["group3"] = "done"]
  /\ gitOps' = IF fs["HAS_PRECOMMIT"] /\ fs["HAS_GIT"] THEN gitOps \cup {"config"} ELSE gitOps
  /\ UNCHANGED <<pc, treeVars, ghostVars, NEEDS_STASH, STASH_CREATED, trapSet, cleanupRan,
                 guardFailed, report, exitStatus, launches, via, exitFile, procExit,
                 timedOut, wrote, probe>>

\* ------------------------------------------------- join, report and exit

\* Faulty variant of Wait: only the run_tool jobs are awaited.
WaitRunToolsOnly ==
  /\ pc = "wait"
  /\ \A j \in RunTools : job[j] # "running"
  /\ pc' = "assemble"
  /\ UNCHANGED <<treeVars, ghostVars, jobVars, guardVars, guardFailed, report, exitStatus>>

\* verify.sh:193: wait returns when no background job of the script runs
Wait ==
  /\ pc = "wait"
  /\ \A j \in Jobs : job[j] # "running"
  /\ pc' = "assemble"
  /\ UNCHANGED <<treeVars, ghostVars, jobVars, guardVars, guardFailed, report, exitStatus>>

\* Faulty variants of StatusOf: the timeout status is forgotten; the two
\* failure statuses are swapped.
StatusOfNoTimeout(ec) == IF ec = 0 THEN "pass" ELSE "fail"
StatusOfSwapped(ec) == IF ec = 0 THEN "pass" ELSE IF ec = TIMEOUT_EXIT THEN "fail" ELSE "timeout"

\* verify.sh:218
StatusOf(ec) == IF ec = 0 THEN "pass" ELSE IF ec = TIMEOUT_EXIT THEN "timeout" ELSE "fail"

\* verify.sh:211-221: exit_str is the content of <name>.exit, empty when the
\* file does not exist
tool_result(exit_str) ==
  IF exit_str = <<>>
    THEN [status |-> "skip", exit_code |-> <<>>]
    ELSE [status |-> StatusOf(exit_str[1]), exit_code |-> <<exit_str[1]>>]

\* verify.sh:289-300
Result(files) ==
  [kind |-> "full", skipped |-> FALSE, tools |-> [n \in Tools |-> tool_result(files[n])]]

\* verify.sh:197-301
Assemble ==
  /\ pc = "assemble"
  /\ pc' = "exit"
  /\ report' = Result(exitFile)
  /\ UNCHANGED <<treeVars, ghostVars, jobVars, guardVars, guardFailed, exitStatus>>

\* The script ends with status st; the EXIT trap, once set, runs cleanup()
\* (verify.sh:66-76).  git stash pop may fail.
Terminate(st) ==
  /\ pc' = "done"
  /\ exitStatus' = <<st>>
  /\ IF trapSet
       THEN \E popOk \in BOOLEAN :
              LET c == Cleanup(fs, STASH_CREATED, idx, wt, stash, popOk) IN
                /\ idx' = c.idx
                /\ wt' = c.wt
                /\ stash' = c.stash
                /\ gitOps' = gitOps \cup c.ops
                /\ guardFailed' = (guardFailed \/ c.failed)
                /\ cleanupRan' = TRUE
       ELSE UNCHANGED <<treeVars, gitOps, guardFailed, cleanupRan>>
  /\ UNCHANGED <<ghostVars, jobVars, NEEDS_STASH, STASH_CREATED, trapSet>>

\* Faulty variant of Exit: the status of a failed tool becomes the status of
\* the script.
ExitWithToolStatus ==
  /\ pc = "exit"
  /\ Terminate(IF \E n \in Tools : exitFile[n] \notin {<<>>, <<0>>} THEN 1 ELSE 0)
  /\ UNCHANGED report

\* verify.sh:301: the end of the script, with the status of the last command
Exit ==
  /\ pc = "exit"
  /\ Terminate(0)
  /\ UNCHANGED report

\* A terminating signal (SIGTERM, SIGINT, SIGHUP) reaches the script.  bash
\* runs the EXIT trap when one is set (verify.sh:76); the background jobs
\* are not signalled and go on.
Signal ==
  /\ pc # "done"
  /\ Terminate(143)
  /\ UNCHANGED report

\* ------------------------------------------------------------------ Next

Next ==
  \/ CheckArg
  \/ VenvCheck
  \/ Guard
  \/ Mktemp
  \/ SetTrap
  \/ LaunchRuff
  \/ LaunchPyright
  \/ LaunchPreCommit
  \/ LaunchTests
  \/ LaunchGroup3
  \/ \E n \in RunTools, c \in ExitCodes : ToolExit(n, c)
  \/ NpxFails
  \/ \E c \in ExitCodes : CollectExit(c)
  \/ \E c \in ExitCodes : PytestExit(c)
  \/ \E n \in Tools : ToolTimeout(n)
  \/ \E n \in Mutating, f \in Files : ToolWrite(n, f)
  \/ Group3Run
  \/ Wait
  \/ Assemble
  \/ Exit

\* The runs that no signal ends
Spec == Init /\ [][Next]_vars

NextSignal ==
  \/ Next
  \/ Signal

\* The runs that a terminating signal may end at any point
SpecSignal == Init /\ [][NextSignal]_vars

\* =================================================================== claims

Dirty0 == NeedsStash(idx0, wt0)
Reported == report.kind = "full"
EndedByItself(n) == procExit[n] # <<>>

\* C1: when verify.sh exits, the content of the working tree equals its
\* content when verify.sh was started.
C1_TreeUnchangedAtExit == pc = "done" => wt = wt0

\* C2: in a git project with uncommitted changes at entry in which the
\* pre-commit run rewrote files, after verify.sh has exited every uncommitted
\* change is present again with its original content (the working tree has
\* its content of entry, so none of the hook runner's modifications remains,
\* and content that was staged is still an uncommitted change).
C2_ChangesSurviveHookRun ==
  (pc = "done" /\ fs["HAS_GIT"] /\ Dirty0 /\ "pre_commit" \in wrote)
    => /\ wt = wt0
       /\ (idx0 = "user" => (idx = "user" \/ wt[TRACKED] = "user"))

\* C3: once git stash push has been attempted, the script does not end
\* without having executed cleanup, whatever ends it.
C3_CleanupAfterSnapshot ==
  (pc = "done" /\ "stash_push" \in gitOps) => cleanupRan

\* C4: when git stash push failed although a snapshot was needed, or git
\* stash pop failed, verify.sh ends with a non-zero status and has not
\* delivered a Verification Report.
C4_GuardFailureIsFatal ==
  (pc = "done" /\ guardFailed) => (exitStatus # <<0>> /\ ~Reported)

\* C5: git checkout . and git clean -fd are executed only when the tree had
\* no uncommitted change at entry or when a snapshot of this run holds them.
C5_ResetOnlyWhenGuarded ==
  ({"checkout", "clean"} \cap gitOps # {}) => (~Dirty0 \/ STASH_CREATED)

\* C6 as stated: without a local tool environment verify.sh returns
\* { skipped: true, reason: "no local tool environment" }, launches no tool,
\* takes no snapshot and issues no git command.
C6_SkipReasonAsStated ==
  (pc = "done" /\ detectFound /\ ~fs["HAS_VENV"] /\ exitStatus = <<0>>)
    => /\ report.kind = "skipped"
       /\ report.skipped = TRUE
       /\ report.reason = "no local tool environment"
       /\ \A n \in Tools : launches[n] = 0
       /\ gitOps = {}

\* C6 amended: without a local tool environment (areas.venv false) verify.sh
\* launches no tool, takes no snapshot and issues no git command at any
\* point, and a run that ends by itself returns
\* { skipped: true, reason: "no venv detected" }.
C6_SkipWithoutVenv ==
  (detectFound /\ ~fs["HAS_VENV"])
    => /\ \A n \in Tools : launches[n] = 0
       /\ \A j \in Jobs : job[j] = "idle"
       /\ gitOps = {}
       /\ ~STASH_CREATED /\ stash = stash0 /\ wt = wt0 /\ idx = idx0
       /\ ~Reported
       /\ (pc = "done" /\ exitStatus = <<0>>)
            => (/\ report.kind = "skipped"
                /\ report.skipped = TRUE
                /\ report.reason = "no venv detected")

\* C6 witness: a dirty git project without venv, after the early exit.
C6_Witness ==
  /\ pc = "done" /\ exitStatus = <<0>>
  /\ ~fs["HAS_VENV"] /\ fs["HAS_GIT"] /\ fs["HAS_PRECOMMIT"]
  /\ Dirty0
  /\ report.kind = "skipped"

GroupOf(n) == CASE n \in {"ruff_check", "ruff_format"} -> "ruff"
                [] n = "pyright" -> "pyright"
                [] n = "pre_commit" -> "pre_commit"
                [] n \in {"test_collect", "pytest"} -> "tests"

\* the tool's area is present / the tool is installed in the venv
Applicable(n) == fs[AreaFlag[GroupOf(n)]]
Available(n) == fs[VenvFlag[GroupOf(n)]]

Launched(n) == launches[n] > 0
HasEntry(n) == report.tools[n].status # "skip"

\* C7 as stated: in a report, exactly the tools that are applicable and
\* available have a result, each of them was launched exactly once, and no
\* other tool was launched.
C7_ExactlyApplicableAvailable ==
  Reported =>
    \A n \in Tools :
      /\ launches[n] = (IF Applicable(n) /\ Available(n) THEN 1 ELSE 0)
      /\ HasEntry(n) <=> (Applicable(n) /\ Available(n))

\* what verify.sh launches: pyright also through node_modules/.bin or npx,
\* pytest only after a collection that exited 0
LaunchExpected(n) ==
  CASE n \in {"ruff_check", "ruff_format", "pre_commit", "test_collect"} ->
         Applicable(n) /\ Available(n)
    [] n = "pyright" -> Applicable(n) /\ (Available(n) \/ probe.node \/ probe.npx)
    [] n = "pytest" -> Applicable(n) /\ Available(n) /\ procExit["test_collect"] = <<0>>

\* C7 amended: no tool is ever launched twice, and in a report each of
\* ruff check, ruff format --check, pre-commit and pytest --collect-only was
\* launched exactly once when its area is present and it is installed in the
\* venv, and not otherwise; pyright exactly once when its area is present and
\* it was found in the venv, in node_modules/.bin or through npx; pytest
\* exactly once when the collection was launched and exited 0; the report has
\* a result other than skip exactly for the launched tools.
C7_LaunchedAsDetected ==
  /\ \A n \in Tools : launches[n] <= 1
  /\ Reported =>
       \A n \in Tools :
         /\ launches[n] = (IF LaunchExpected(n) THEN 1 ELSE 0)
         /\ HasEntry(n) <=> Launched(n)

\* C7 witness: a report of a run that started pyright outside the venv and
\* left out pytest after a failed collection.
C7_Witness ==
  /\ Reported
  /\ via["pyright"] \in {"node_modules", "npx"}
  /\ ~fs["PYRIGHT_IN_VENV"]
  /\ procExit["test_collect"] = <<1>>
  /\ launches["pytest"] = 0

\* C8: whenever pytest --collect-only ended with a non-zero exit, pytest is
\* never started and the report's pytest entry has status skip.
C8_CollectFailureSkipsPytest ==
  (EndedByItself("test_collect") /\ procExit["test_collect"] # <<0>>)
    => /\ launches["pytest"] = 0
       /\ job["pytest"] = "idle"
       /\ Reported => report.tools["pytest"] = [status |-> "skip", exit_code |-> <<>>]

\* C8 witness: a report after a collection that exited 1, reported as fail.
C8_Witness ==
  /\ Reported
  /\ procExit["test_collect"] = <<1>>
  /\ report.tools["test_collect"].status = "fail"

C10_TimeoutIffTerminated ==
  Reported =>
    \A n \in Tools :
      /\ (report.tools[n].status = "timeout") <=> (n \in timedOut)
      /\ (EndedByItself(n) /\ procExit[n] # <<0>>) => report.tools[n].status = "fail"

\* C10 amended: a tool entry has status timeout if and only if the exit code
\* recorded for the tool is 124, which is the case when timeout terminated
\* the pytest execution step and when a tool ended by itself with exit code
\* 124; a tool that ended by itself with a non-zero exit code other than 124
\* is reported as fail, and a tool terminated by timeout is never reported as
\* fail.
C10_TimeoutIsExit124 ==
  Reported =>
    \A n \in Tools :
      /\ (report.tools[n].status = "timeout")
           <=> (n \in timedOut \/ procExit[n] = <<124>>)
      /\ (report.tools[n].status = "timeout") <=> (report.tools[n].exit_code = <<124>>)
      /\ (EndedByItself(n) /\ procExit[n] \notin {<<0>>, <<124>>})
           => report.tools[n].status = "fail"
      /\ n \in timedOut => report.tools[n].status # "fail"

\* C10 witness: a report in which ruff check, which ended by itself with exit
\* code 124, has status timeout.
C10_Witness ==
  /\ Reported
  /\ procExit["ruff_check"] = <<124>>
  /\ report.tools["ruff_check"].status = "timeout"
  /\ "ruff_check" \notin timedOut

\* ------------------------------------------------------------ C11: progress

\* The commands of the main script: bash goes on with the next command as
\* soon as the current one has returned (verify.sh:12-76, 96-193, 197-301).
MainStep ==
  \/ CheckArg \/ VenvCheck \/ Guard \/ Mktemp \/ SetTrap
  \/ LaunchRuff \/ LaunchPyright \/ LaunchPreCommit \/ LaunchTests \/ LaunchGroup3
  \/ Wait \/ Assemble \/ Exit

\* coreutils timeout signals a command that is still running after 120 s
\* (verify.sh:127-134)
Deadline == \E n \in Tools : ToolTimeout(n)

\* What the code's scheduling guarantees: the script's own commands, the
\* deadline of timeout 120 and the file reads of Group 3 are not postponed
\* forever.  Nothing makes a tool process end by itself.
Scheduled == MainStep \/ Deadline \/ Group3Run

Fairness == WF_vars(Scheduled)

SpecFair == Spec /\ Fairness

\* the commands started without timeout (verify.sh:84, 120)
Unwatched == RunTools \cup {"test_collect"}
Hung == \E n \in Unwatched : job[n] = "running"

PcRank ==
  [p \in {"start", "venv", "guard", "mktemp", "trap", "ruff", "pyright", "pre_commit",
          "tests", "group3", "wait", "assemble", "exit", "done"} |->
     CASE p = "start" -> 13 [] p = "venv" -> 12 [] p = "guard" -> 11 [] p = "mktemp" -> 10
       [] p = "trap" -> 9 [] p = "ruff" -> 8 [] p = "pyright" -> 7 [] p = "pre_commit" -> 6
       [] p = "tests" -> 5 [] p = "group3" -> 4 [] p = "wait" -> 3 [] p = "assemble" -> 2
       [] p = "exit" -> 1 [] p = "done" -> 0]
JobRank(st) == IF st = "idle" THEN 2 ELSE IF st = "running" THEN 1 ELSE 0
Rank ==
  4 * PcRank[pc]
    + JobRank(job["ruff_check"]) + JobRank(job["ruff_format"]) + JobRank(job["pyright"])
    + JobRank(job["pre_commit"]) + JobRank(job["test_collect"]) + JobRank(job["pytest"])
    + JobRank(job["group3"])
    + (IF wt[TRACKED] # "tool" THEN 1 ELSE 0) + (IF wt[NEWPATH] # "tool" THEN 1 ELSE 0)

VerifyIdle ==
  /\ detectFound = FALSE
  /\ fs = [x \in Flags |-> FALSE]
  /\ idx = "head" /\ wt = CleanTree /\ stash = <<>>
  /\ idx0 = idx /\ wt0 = wt /\ stash0 = stash
  /\ pc = "off"
  /\ NEEDS_STASH = FALSE /\ STASH_CREATED = FALSE
  /\ trapSet = FALSE /\ cleanupRan = FALSE
  /\ gitOps = {}
  /\ job = [j \in Jobs |-> "idle"]
  /\ launches = [n \in Tools |-> 0]
  /\ via = [n \in Tools |-> "none"]
  /\ exitFile = [n \in Tools |-> <<>>]
  /\ procExit = [n \in Tools |-> <<>>]
  /\ timedOut = {}
  /\ wrote = {}
  /\ probe = [node |-> FALSE, npx |-> FALSE]
  /\ guardFailed = FALSE
  /\ report = NoReport
  /\ exitStatus = <<>>

verifyVars == <<detectFound, fs, idx, wt, stash, idx0, wt0, stash0, pc, NEEDS_STASH,
                STASH_CREATED, trapSet, cleanupRan, gitOps, job, launches, via,
                exitFile, procExit, timedOut, wrote, probe, guardFailed, report,
                exitStatus>>

Text(n, kept, marker, nl) == [lines |-> n, kept |-> kept, marker |-> marker, nl |-> nl]

\* number of lines of a text
Lines(t) == t.lines + (IF t.marker THEN 1 ELSE 0)

\* wc -l (verify.sh:87, 137) counts newline characters: a last line without
\* newline is not counted
WcL(t) == IF t.nl \/ Lines(t) = 0 THEN Lines(t) ELSE Lines(t) - 1

\* head -30 (verify.sh:88)
HeadOf(t) == Text(IF t.lines > LINE_BUDGET THEN LINE_BUDGET ELSE t.lines, "head", FALSE,
                  IF t.lines > LINE_BUDGET THEN TRUE ELSE t.nl)

\* tail -30 (verify.sh:138)
TailOf(t) == Text(IF t.lines > LINE_BUDGET THEN LINE_BUDGET ELSE t.lines, "tail", FALSE, t.nl)

\* echo "... (truncated)" >> file (verify.sh:89)
WithMarker(t) == [t EXCEPT !.marker = TRUE, !.nl = TRUE]

\* verify.sh:86-91: what run_tool leaves in <name>.out
RunToolStored(t) == IF WcL(t) > LINE_BUDGET THEN WithMarker(HeadOf(t)) ELSE t

\* verify.sh:120: the collection output is stored as it is
CollectStored(t) == t

\* verify.sh:136-140: what the Group 2 subshell leaves in pytest.out
PytestStored(t) == IF WcL(t) > LINE_BUDGET THEN TailOf(t) ELSE t

\* verify.sh:203-208: read_file(...).strip() drops the final newline
read_file(f) == IF f = <<>> THEN <<>> ELSE [f EXCEPT !.nl = FALSE]

RawOutputs ==
  {Text(n, "all", FALSE, nl) : n \in 0..(LINE_BUDGET + MaxExtraLines), nl \in BOOLEAN}
    \ {Text(0, "all", FALSE, FALSE)}

InitCapture ==
  /\ VerifyIdle
  /\ VersionsIdle /\ TwoRunsIdle /\ DetectIdle /\ InstallIdle /\ MoreIdle
  /\ capName \in Tools
  /\ rawOut \in RawOutputs
  /\ outFile = <<>>
  /\ repOutput = <<>>
  /\ cpc = "run"

\* verify.sh:80-92: run_tool captures a Group 1 tool
RunToolCapture ==
  /\ cpc = "run" /\ capName \in RunTools
  /\ outFile' = RunToolStored(rawOut)
  /\ cpc' = "captured"
  /\ UNCHANGED <<verifyVars, versionVars, twoRunVars, detectVars, installVars, moreVars, capName, rawOut, repOutput>>

\* verify.sh:119-121: the collection step of Group 2
CollectCapture ==
  /\ cpc = "run" /\ capName = "test_collect"
  /\ outFile' = CollectStored(rawOut)
  /\ cpc' = "captured"
  /\ UNCHANGED <<verifyVars, versionVars, twoRunVars, detectVars, installVars, moreVars, capName, rawOut, repOutput>>

\* verify.sh:126-140: the execution step of Group 2
PytestCapture ==
  /\ cpc = "run" /\ capName = "pytest"
  /\ outFile' = PytestStored(rawOut)
  /\ cpc' = "captured"
  /\ UNCHANGED <<verifyVars, versionVars, twoRunVars, detectVars, installVars, moreVars, capName, rawOut, repOutput>>

\* verify.sh:211-221: tool_result puts the content of <name>.out in the entry
ReportOutput ==
  /\ cpc = "captured"
  /\ repOutput' = read_file(outFile)
  /\ cpc' = "reported"
  /\ UNCHANGED <<verifyVars, versionVars, twoRunVars, detectVars, installVars, moreVars, capName, rawOut, outFile>>

NextCapture == RunToolCapture \/ CollectCapture \/ PytestCapture \/ ReportOutput

SpecCapture == InitCapture /\ [][NextCapture]_vars

\* C12: for each of the six tool entries, when the tool's raw output has more
\* than 30 lines, the output stored in the report has at most 30 lines of the
\* tool plus at most the one marker line.
C12_StoredOutputBounded ==
  (cpc = "reported" /\ rawOut.lines > LINE_BUDGET)
    => /\ repOutput.lines <= LINE_BUDGET
       /\ Lines(repOutput) <= LINE_BUDGET + 1

\* ========================================= version cross-reference (C13)
\* Group 3 extracts the ruff version pinned in .pre-commit-config.yaml and in
\* the workflow files; the assembly compares them with the version of the
\* ruff in the venv.  A file is described by the way it writes its pin.

Versions == {"1.2.0", "1.3.0"}

\* .pre-commit-config.yaml: absent, without a ruff-pre-commit repo, or with
\* one whose rev is written  rev: v1.3.0,  rev: 1.3.0  or  rev: "v1.3.0"
HookConfigs ==
  {[form |-> "absent"], [form |-> "no_ruff"]}
    \cup {[form |-> f, ver |-> v] : f \in {"v", "plain", "quoted"}, v \in Versions}

\* a workflow file: without ruff pin, or installing  ruff==1.3.0  or running
\* ruff@1.3.0
WorkflowFiles ==
  {[form |-> "no_ruff"]} \cup {[form |-> f, ver |-> v] : f \in {"eqeq", "at"}, v \in Versions}

Pins(file) == file.form \notin {"absent", "no_ruff"}

\* verify.sh:151-158: re.search(r'repo:\s*...ruff-pre-commit\s*\n\s*rev:\s*v?([^\s]+)')
\* and print(m.group(1)); "" when nothing is printed
HookRev(file) ==
  CASE file.form \in {"v", "plain"} -> file.ver
    [] file.form = "quoted" -> "\"v" \o file.ver \o "\""
    [] OTHER -> ""

\* verify.sh:166-173: re.search(r'ruff[=@]v?([0-9]+\.[0-9]+\.[0-9]+)'): in
\* ruff==1.3.0 the character after ruff= is not a digit
WorkflowRuffVer(file) == IF file.form = "at" THEN file.ver ELSE ""

\* verify.sh:163-175: the first workflow file, in glob order, with a match
RECURSIVE FirstCiRuffVer(_)
FirstCiRuffVer(files) ==
  IF files = <<>> THEN ""
  ELSE IF WorkflowRuffVer(Head(files)) # "" THEN WorkflowRuffVer(Head(files))
  ELSE FirstCiRuffVer(Tail(files))

\* verify.sh:252-263
Mismatches(local_ruff, precommit_ruff, ci_ruff) ==
  IF local_ruff = "" THEN <<>>
  ELSE (IF precommit_ruff # "" /\ local_ruff # precommit_ruff
          THEN <<[tool |-> "ruff", type |-> "venv_vs_precommit",
                  local |-> local_ruff, pinned |-> precommit_ruff]>>
          ELSE <<>>)
       \o (IF ci_ruff # "" /\ local_ruff # ci_ruff
             THEN <<[tool |-> "ruff", type |-> "venv_vs_ci",
                     local |-> local_ruff, pinned |-> ci_ruff]>>
             ELSE <<>>)

SeqsUpTo(S, n) == UNION {[1..k -> S] : k \in 0..n}

\* A Python version is the sequence of its components: <<3, 11, 4>> is
\* 3.11.4.  venv_tools.python of the detection JSON is the version that
\* .venv/bin/python --version prints (detect.sh:71), <<>> when it is null.
LocalPythons == {<<>>, <<3, 11, 4>>, <<3, 12, 4>>, <<2, 11, 4>>}

\* a file of detect['ci_files']: gone, without python-version, with a list
\* (python-version: ["3.11", "3.12"]), or with one version written plain,
\* in double quotes or in single quotes
CiPythonFiles ==
  {[form |-> "absent"], [form |-> "none"], [form |-> "list"]}
    \cup {[form |-> q, ver |-> v] : q \in {"plain", "dq", "sq"},
                                   v \in {<<3>>, <<3, 11>>, <<3, 11, 9>>, <<3, 12>>}}

\* Faulty variant of LocalMinor: the whole local version is compared.
LocalFull(local_python) == local_python

\* verify.sh:282: '.'.join(local_python.split('.')[:2])
LocalMinor(local_python) ==
  SubSeq(local_python, 1, IF Len(local_python) < 2 THEN Len(local_python) ELSE 2)

\* verify.sh:272-276: re.search(r'python-version:\s*["\x27]?([0-9]+\.[0-9]+)')
\* on one file; <<>> when the file cannot be read or nothing matches
CiPythonVer(file) ==
  IF file.form \in {"plain", "dq", "sq"} /\ Len(file.ver) >= 2
    THEN SubSeq(file.ver, 1, 2)
    ELSE <<>>

\* verify.sh:270-279: the first file of ci_files with a match
RECURSIVE FirstCiPythonVer(_)
FirstCiPythonVer(files) ==
  IF files = <<>> THEN <<>>
  ELSE IF CiPythonVer(Head(files)) # <<>> THEN CiPythonVer(Head(files))
  ELSE FirstCiPythonVer(Tail(files))

\* verify.sh:281-287
PythonMismatch(local_python, ci_python_ver) ==
  IF local_python # <<>> /\ ci_python_ver # <<>> /\ LocalMinor(local_python) # ci_python_ver
    THEN <<[tool |-> "python", type |-> "venv_vs_ci",
            local |-> LocalMinor(local_python), pinned |-> ci_python_ver]>>
    ELSE <<>>

\* HAS_PRECOMMIT is what detect.sh saw; the hook config may be gone when
\* Group 3 runs (verify.sh:149 tests the file again).  The ruff pins and
\* the Python versions are compared independently of each other: the runs
\* followed vary one of the two.
InitVersions ==
  /\ VerifyIdle /\ CaptureIdle /\ TwoRunsIdle /\ DetectIdle /\ InstallIdle /\ MoreIdle
  /\ \/ versionIn \in [LOCAL_RUFF_VER : Versions \cup {""},
                       HAS_PRECOMMIT : BOOLEAN,
                       hook : HookConfigs,
                       workflows : SeqsUpTo(WorkflowFiles, MaxWorkflows),
                       python : {<<>>},
                       ci_files : {<<>>}]
     \/ versionIn \in [LOCAL_RUFF_VER : {""},
                       HAS_PRECOMMIT : {FALSE},
                       hook : HookConfigs,
                       workflows : {<<>>},
                       python : LocalPythons,
                       ci_files : SeqsUpTo(CiPythonFiles, MaxWorkflows)]
  /\ (~versionIn.HAS_PRECOMMIT => versionIn.hook.form = "absent")
  /\ g3File = <<>>
  /\ version_mismatches = <<>>
  /\ vpc = "group3"

\* verify.sh:146-190: the Group 3 subshell
Group3Versions ==
  /\ vpc = "group3"
  /\ g3File' = [precommit_ruff_ver |->
                  IF versionIn.HAS_PRECOMMIT /\ versionIn.hook.form # "absent"
                    THEN HookRev(versionIn.hook) ELSE "",
                ci_ruff_ver |-> FirstCiRuffVer(versionIn.workflows)]
  /\ vpc' = "assemble"
  /\ UNCHANGED <<verifyVars, captureVars, twoRunVars, detectVars, installVars, moreVars, versionIn, version_mismatches>>

\* verify.sh:247-287: the assembly reads the two files of Group 3, then the
\* detection JSON and the files of its ci_files
AssembleMismatches ==
  /\ vpc = "assemble"
  /\ version_mismatches' = Mismatches(versionIn.LOCAL_RUFF_VER, g3File.precommit_ruff_ver,
                                      g3File.ci_ruff_ver)
                             \o PythonMismatch(versionIn.python,
                                               FirstCiPythonVer(versionIn.ci_files))
  /\ vpc' = "reported"
  /\ UNCHANGED <<verifyVars, captureVars, twoRunVars, detectVars, installVars, moreVars, versionIn, g3File>>

NextVersions == Group3Versions \/ AssembleMismatches

SpecVersions == InitVersions /\ [][NextVersions]_vars

OfType(ms, t) == {i \in DOMAIN ms : ms[i].tool = "ruff" /\ ms[i].type = t}
HookPin == IF Pins(versionIn.hook) THEN {versionIn.hook.ver} ELSE {}
CiPins == {versionIn.workflows[i].ver :
             i \in {k \in DOMAIN versionIn.workflows : Pins(versionIn.workflows[k])}}

\* C13: the report has exactly one mismatch of kind local-vs-hook when the
\* local ruff version and the version pinned in the hook config differ,
\* exactly one of kind local-vs-CI when the local version and a version pinned
\* in a CI workflow differ, and none of a kind when the versions are equal or
\* a pin is missing.
C13_EveryUnequalPairReported ==
  (vpc = "reported" /\ versionIn.LOCAL_RUFF_VER # "")
    => /\ Cardinality(OfType(version_mismatches, "venv_vs_precommit"))
            = (IF HookPin \ {versionIn.LOCAL_RUFF_VER} # {} THEN 1 ELSE 0)
       /\ Cardinality(OfType(version_mismatches, "venv_vs_ci"))
            = (IF CiPins \ {versionIn.LOCAL_RUFF_VER} # {} THEN 1 ELSE 0)

\* ============================================ C14-C16, on Spec (verify.sh)

C15_AssemblyAfterAllUnits ==
  (pc \in {"assemble", "exit"} \/ Reported)
    => /\ \A j \in Jobs : job[j] # "running"
       /\ job["group3"] = "done"
       /\ \A n \in Tools : Launched(n) => (job[n] = "done" /\ exitFile[n] # <<>>)

\* C15 witness: the assembly is about to start after a Group 1 tool, the
\* two steps of Group 2 and Group 3 have ended.
C15_Witness ==
  /\ pc = "assemble"
  /\ Launched("ruff_check") /\ Launched("test_collect") /\ Launched("pytest")
  /\ job["group3"] = "done"

\* C16 as stated: every launched tool is started through its executable in
\* .venv/bin.
C16_OnlyVenvExecutables == \A n \in Tools : Launched(n) => via[n] = "venv"

\* C16 amended: ruff check, ruff format, pre-commit and both pytest steps are
\* started through .venv/bin only; pyright is started through .venv/bin/pyright
\* when the Fact Sheet has it in the venv, and otherwise through
\* node_modules/.bin/pyright when that is executable, and otherwise through
\* npx --no-install pyright when npx is on the PATH.
C16_VenvExceptPyrightFallback ==
  \A n \in Tools :
    Launched(n) =>
      IF n # "pyright" THEN via[n] = "venv"
      ELSE /\ via[n] = "venv" <=> fs["PYRIGHT_IN_VENV"]
           /\ via[n] = "node_modules" <=> (~fs["PYRIGHT_IN_VENV"] /\ probe.node)
           /\ via[n] = "npx" <=> (~fs["PYRIGHT_IN_VENV"] /\ ~probe.node /\ probe.npx)

\* C16 witness: pyright was started through npx next to a ruff started
\* through the venv.
C16_Witness ==
  /\ via["pyright"] = "npx" /\ Launched("pyright")
  /\ via["ruff_check"] = "venv" /\ Launched("ruff_check")

\* ================================== two runs on one Fact Sheet (C17)
\* Two runs of verify.sh, A and B, are given the same Fact Sheet in projects
\* whose files differ.  Of a run only what the claim compares is kept: the
\* command each tool was started with, and the files Group 3 read.

Runs == {"A", "B"}

\* What verify.sh asks the filesystem: is node_modules/.bin/pyright executable
\* (verify.sh:105), is npx on the PATH (107), is .pre-commit-config.yaml a file
\* (149), and which workflow files the glob yields (163-164), each either
\* without ruff pin or with one the search matches
Disks ==
  [node : BOOLEAN, npx : BOOLEAN, hook : BOOLEAN,
   workflows : [1..MaxWorkflows -> {"absent", "no_ruff", "at"}]]

\* verify.sh:163-175: the workflow files Group 3 opens, in glob order, up to
\* the first one with a match
RECURSIVE WorkflowsRead(_, _)
WorkflowsRead(w, i) ==
  IF i > MaxWorkflows THEN {}
  ELSE IF w[i] = "absent" THEN WorkflowsRead(w, i + 1)
  ELSE IF w[i] = "at" THEN {i}
  ELSE {i} \cup WorkflowsRead(w, i + 1)

\* verify.sh:96-175: what a run on Fact Sheet f does in a project with files d
RunOutcome(f, d) ==
  [cmd |-> [n \in Tools \ {"pytest"} |->
              CASE n \in {"ruff_check", "ruff_format"} ->
                     IF LaunchesRuff(f) THEN "venv" ELSE "none"
                [] n = "pyright" -> PyrightCmd(f, d.node, d.npx)
                [] n = "pre_commit" -> IF LaunchesPreCommit(f) THEN "venv" ELSE "none"
                [] n = "test_collect" -> IF LaunchesTests(f) THEN "venv" ELSE "none"],
   probed |-> [node |-> f["HAS_PYRIGHT"] /\ ~f["PYRIGHT_IN_VENV"] /\ d.node,
               npx |-> f["HAS_PYRIGHT"] /\ ~f["PYRIGHT_IN_VENV"] /\ ~d.node /\ d.npx,
               hook |-> f["HAS_PRECOMMIT"] /\ d.hook,
               glob |-> {i \in 1..MaxWorkflows : d.workflows[i] # "absent"}],
   hookRead |-> f["HAS_PRECOMMIT"] /\ d.hook,
   workflowsRead |-> WorkflowsRead(d.workflows, 1)]

\* both runs get past the venv check (verify.sh:44)
InitTwoRuns ==
  /\ VerifyIdle /\ CaptureIdle /\ VersionsIdle /\ DetectIdle /\ InstallIdle /\ MoreIdle
  /\ runFs \in {f \in FactSheets : ~ShouldSkip(f)}
  /\ runRes = [r \in Runs |-> <<>>]

\* one run, from its launches to the end of Group 3
RunOn(r, d) ==
  /\ runRes[r] = <<>>
  /\ runRes' = [runRes EXCEPT ![r] = RunOutcome(runFs, d)]
  /\ UNCHANGED <<verifyVars, captureVars, versionVars, detectVars, installVars, moreVars, runFs>>

NextTwoRuns == \E r \in Runs, d \in Disks : RunOn(r, d)

SpecTwoRuns == InitTwoRuns /\ [][NextTwoRuns]_vars

BothRan == runRes["A"] # <<>> /\ runRes["B"] # <<>>

ExampleNames == {"example.env", ".env.example", "env.example",
                 "config.example.json", "config.json.example", "example.config.json"}

\* The projects followed: those without config.json and without example
\* files, and those in which only the env config files and their examples
\* vary.
Projects ==
  [pyproject : {"absent", "ok", "malformed", "unreadable"},
   gitignore : {"absent", "ok", "unreadable"},
   envFile : BOOLEAN,
   testFile : {"absent", "ok", "unreadable"},
   venv : BOOLEAN,
   ruffExe : BOOLEAN,
   pyrightconfig : BOOLEAN,
   pyrightExe : {"absent", "noexec", "ok"},
   nodePyright : BOOLEAN,
   configJson : {FALSE},
   examples : {{}}]
  \cup
  [pyproject : {"absent"},
   gitignore : {"absent", "ok"},
   envFile : BOOLEAN,
   testFile : {"absent"},
   venv : {FALSE},
   ruffExe : {FALSE},
   pyrightconfig : {FALSE},
   pyrightExe : {"absent"},
   nodePyright : {FALSE},
   configJson : BOOLEAN,
   examples : SUBSET ExampleNames]

\* detect.sh:58-65: the env config files found, in the order of the two loops
\* (the glob .env.* also matches .env.example)
ENV_FILES(p) ==
  (IF p.envFile THEN <<".env">> ELSE <<>>)
    \o (IF p.configJson THEN <<"config.json">> ELSE <<>>)
    \o (IF ".env.example" \in p.examples THEN <<".env.example">> ELSE <<>>)

\* detect.sh:194: base.lstrip(".")
bare(base) == CASE base = ".env" -> "env"
                [] base = ".env.example" -> "env.example"
                [] OTHER -> base

\* detect.sh:195
candidates(base) == {"example." \o bare(base), base \o ".example", bare(base) \o ".example"}

\* detect.sh:183, 191-198: some env config file has a candidate that is a file
env_has_example(p) ==
  \E i \in DOMAIN ENV_FILES(p) :
    candidates(ENV_FILES(p)[i]) \cap (p.examples \cup {ENV_FILES(p)[j] : j \in DOMAIN ENV_FILES(p)}) # {}

\* detect.sh:70-79: what .venv/bin/pyright --version prints, and otherwise
\* what an executable node_modules/.bin/pyright prints; "null" when nothing.
\* A file that is missing or not executable prints nothing (2>/dev/null,
\* || true).
PYRIGHT_VERSION(p) ==
  IF ~p.venv THEN "null"
  ELSE IF p.pyrightExe = "ok" THEN "1.1.1"
  ELSE IF p.nodePyright THEN "1.1.350"
  ELSE "null"

\* detect.sh:180-188: open(".gitignore").read() is executed, outside any try,
\* when an env config file and .gitignore exist
PythonBlockRaises(p) == ENV_FILES(p) # <<>> /\ p.gitignore = "unreadable"

\* detect.sh:10-79 and 95-263: the JSON that the python block prints.  The
\* pyproject block and the test-file scan are inside try/except (115-166,
\* 202-209); the tool versions are probed only in a venv, each with || true
\* (70-79)
DetectOutput(p) ==
  [areas |-> [pyproject |-> p.pyproject # "absent",
              gitignore |-> p.gitignore # "absent",
              tests |-> p.testFile # "absent",
              venv |-> p.venv,
              env |-> ENV_FILES(p) # <<>>,
              pyright |-> p.pyrightconfig],
   venv_tools |-> [ruff |-> IF p.venv /\ p.ruffExe THEN "1.2.0" ELSE "null",
                   pyright |-> PYRIGHT_VERSION(p)],
   requires_python |-> IF p.pyproject = "ok" THEN ">=3.11" ELSE "null",
   project_name |-> IF p.pyproject = "ok" THEN "name" ELSE "basename",
   env |-> [config_files |-> ENV_FILES(p),
            gitignored |-> ENV_FILES(p) # <<>> /\ p.gitignore = "ok",
            has_example |-> env_has_example(p)],
   tests |-> [has_tests |-> p.testFile # "absent",
              has_pytest_cov |-> p.pyproject = "ok",
              uses_inline_snapshot |-> p.testFile = "ok"]]

InitDetect ==
  /\ VerifyIdle /\ CaptureIdle /\ VersionsIdle /\ TwoRunsIdle /\ InstallIdle /\ MoreIdle
  /\ proj \in Projects
  /\ factSheet = <<>>
  /\ dpc = "shell"
  /\ dexit = <<>>

detectFrame == <<verifyVars, captureVars, versionVars, twoRunVars, installVars, moreVars, proj>>

\* detect.sh:10-84: the existence checks and the version probes; no command
\* of this part ends the script (set -uo pipefail without -e)
DetectShell ==
  /\ dpc = "shell"
  /\ dpc' = "python"
  /\ UNCHANGED <<detectFrame, factSheet, dexit>>

\* detect.sh:89-264: exec python3; an exception that is not caught ends the
\* script with status 1 before anything is printed
DetectPython ==
  /\ dpc = "python"
  /\ dpc' = "done"
  /\ IF PythonBlockRaises(proj)
       THEN /\ dexit' = <<1>>
            /\ UNCHANGED factSheet
       ELSE /\ dexit' = <<0>>
            /\ factSheet' = DetectOutput(proj)
  /\ UNCHANGED detectFrame

\* verify.sh:21-41: the flags verify.sh takes from the Fact Sheet, those that
\* decide on pyright
ParseFlags(d) ==
  [k \in {"HAS_VENV", "HAS_PYRIGHT", "PYRIGHT_IN_VENV"} |->
     CASE k = "HAS_VENV" -> d.areas.venv
       [] k = "HAS_PYRIGHT" -> d.areas.pyright
       [] k = "PYRIGHT_IN_VENV" -> d.venv_tools.pyright # "null"]

\* audit.md:392-430: verify.sh is run on the Fact Sheet detect.sh printed, in
\* the same project; verify.sh:44 and 102-110 decide how pyright is started.
\* Whether npx is on the PATH is not a fact of the project.
VerifyPyright ==
  /\ dpc = "done" /\ dexit = <<0>>
  /\ dpc' = "verified"
  /\ \E npx \in BOOLEAN :
       pyrightRun' = IF ShouldSkip(ParseFlags(factSheet)) THEN "none"
                     ELSE PyrightCmd(ParseFlags(factSheet), proj.nodePyright, npx)
  /\ UNCHANGED <<verifyVars, captureVars, versionVars, twoRunVars, installVars,
                 lifecycleVars, raceVars, cov, agentSaw, subDirty, proj, factSheet, dexit>>

NextDetect == DetectShell \/ DetectPython \/ VerifyPyright

SpecDetect == InitDetect /\ [][NextDetect]_vars

\* C18: detect.sh never fails: for every project state it ends with status 0
\* and a complete Fact Sheet in which each fact that could not be determined
\* has its absent value and the other facts are detected.
C18_DetectNeverFails ==
  dpc = "done"
    => /\ dexit = <<0>>
       /\ factSheet # <<>>
       /\ factSheet.areas.pyproject = (proj.pyproject # "absent")
       /\ factSheet.areas.venv = proj.venv
       /\ factSheet.areas.tests = (proj.testFile # "absent")
       /\ (proj.pyproject # "ok" => factSheet.requires_python = "null")
       /\ (proj.testFile # "ok" => ~factSheet.tests.uses_inline_snapshot)
       /\ (proj.gitignore # "ok" => ~factSheet.env.gitignored)
       /\ (~(proj.venv /\ proj.ruffExe) => factSheet.venv_tools.ruff = "null")

\* ============================================ bin/install.js (C19, C20)
\* install(isGlobal, false): an install for Claude Code into a config
\* directory that may hold an earlier installation.  The content of an
\* installed file is "none" (no file), "v1" (what the previous version of the
\* package installed), "v2" (what this version installs) or "user" (edited
\* after the install).

InstFileNames == <<"commands/infra/audit.md", "infra/scripts/verify.sh", "infra/blueprint.md">>
InstFiles == {InstFileNames[i] : i \in 1..MaxInstFiles}

\* install.js:192-195
fileHash(content) == <<"sha256", content>>

\* install.js:543-552: the manifest an install of version v leaves
ManifestOf(v, dir) ==
  [form |-> "json", version |-> v,
   files |-> [f \in {g \in InstFiles : dir[g] # "none"} |-> fileHash(dir[f])]]

\* settings.json: absent, text that is not JSON, the JSON value null, or an
\* object: with or without another top-level key (model), with or without
\* the key hooks, in it with or without a hook for another event
\* (PreToolUse) and with or without the key SessionStart, whose entries each
\* hold the hook of another tool ("other"), the update-check hook ("ours")
\* or both of them in one hooks array ("shared")
HookLists == UNION {[1..k -> {"other", "ours", "shared"}] : k \in 0..MaxHooks}
SettingsObjects ==
  {o \in [form : {"object"}, model : BOOLEAN, hooks : BOOLEAN, PreToolUse : BOOLEAN,
          SessionStart : BOOLEAN, entries : HookLists] :
     /\ (~o.hooks => (~o.PreToolUse /\ ~o.SessionStart))
     /\ (~o.SessionStart => o.entries = <<>>)}
SettingsFiles == {[form |-> "absent"], [form |-> "invalid"], [form |-> "null"]} \cup SettingsObjects

\* install.js:171-180
readSettings(file) ==
  IF file.form \in {"absent", "invalid"}
    THEN [form |-> "object", model |-> FALSE, hooks |-> FALSE, PreToolUse |-> FALSE,
          SessionStart |-> FALSE, entries |-> <<>>]
    ELSE file

\* install.js:517-519
hasOurHook(list) == \E i \in DOMAIN list : list[i] \in {"ours", "shared"}

\* install.js:508-536, on a settings object
MergeHook(settings) ==
  [settings EXCEPT !.hooks = TRUE, !.SessionStart = TRUE,
                   !.entries = IF hasOurHook(@) THEN @ ELSE Append(@, "ours")]

\* Faulty variant of Modified: every installed file is taken as modified.
ModifiedExisting(manifest, dir) == {f \in InstFiles : dir[f] # "none"}

\* install.js:307-316: the files of the manifest that exist and whose hash is
\* not the recorded one
Modified(manifest, dir) ==
  {f \in DOMAIN manifest.files : dir[f] # "none" /\ fileHash(dir[f]) # manifest.files[f]}

InitInstall ==
  /\ VerifyIdle /\ CaptureIdle /\ VersionsIdle /\ TwoRunsIdle /\ DetectIdle /\ MoreIdle
  /\ configDir \in [InstFiles -> {"none", "v1", "v2", "user"}]
  /\ manifestFile \in {[form |-> "absent"], [form |-> "corrupt"]}
                        \cup {ManifestOf(v, [f \in InstFiles |-> v]) : v \in {"v1", "v2"}}
  /\ patchesDir \in [InstFiles -> {"none", "stale"}]
  /\ settingsFile \in SettingsFiles
  /\ inst0 = [configDir |-> configDir, manifestFile |-> manifestFile,
              patchesDir |-> patchesDir, settingsFile |-> settingsFile]
  /\ ipc = "patches"
  /\ iexit = <<>>

installFrame == <<verifyVars, captureVars, versionVars, twoRunVars, detectVars, moreVars, inst0>>

\* install.js:297-332, called at 377-378 before any file is written
saveLocalPatches ==
  /\ ipc = "patches"
  /\ ipc' = "copy"
  /\ patchesDir' =
       IF manifestFile.form # "json" THEN patchesDir
       ELSE [f \in InstFiles |->
               IF f \in Modified(manifestFile, configDir) THEN configDir[f] ELSE patchesDir[f]]
  /\ UNCHANGED <<installFrame, configDir, manifestFile, settingsFile, iexit>>

\* install.js:386-499: steps 1 to 6 write every file of the package
CopyFiles ==
  /\ ipc = "copy"
  /\ ipc' = "settings"
  /\ configDir' = [f \in InstFiles |-> "v2"]
  /\ UNCHANGED <<installFrame, manifestFile, patchesDir, settingsFile, iexit>>

\* install.js:503-540: step 7; settings.hooks of null throws, which ends the
\* installer before the manifest is written
MergeSettings ==
  /\ ipc = "settings"
  /\ IF readSettings(settingsFile).form = "null"
       THEN /\ ipc' = "done"
            /\ iexit' = <<1>>
            /\ UNCHANGED settingsFile
       ELSE /\ ipc' = "manifest"
            /\ settingsFile' = MergeHook(readSettings(settingsFile))
            /\ UNCHANGED iexit
  /\ UNCHANGED <<installFrame, configDir, manifestFile, patchesDir>>

\* install.js:542-584: step 8 and the end of install()
WriteManifest ==
  /\ ipc = "manifest"
  /\ ipc' = "done"
  /\ manifestFile' = ManifestOf("v2", configDir)
  /\ iexit' = <<0>>
  /\ UNCHANGED <<installFrame, configDir, patchesDir, settingsFile>>

NextInstall == saveLocalPatches \/ CopyFiles \/ MergeSettings \/ WriteManifest

SpecInstall == InitInstall /\ [][NextInstall]_vars

IsPrefix(a, b) == Len(a) <= Len(b) /\ \A i \in DOMAIN a : a[i] = b[i]
OursIn(list) == Cardinality({i \in DOMAIN list : list[i] \in {"ours", "shared"}})

\* what was in settings.json is still there: text the installer did not
\* parse is kept as it was; of an object, the other keys, the hooks of other
\* events and the SessionStart entries, in their order
Preserved(before, after) ==
  CASE before.form = "absent" -> TRUE
    [] before.form \in {"invalid", "null"} -> after = before
    [] before.form = "object" ->
         /\ after.form = "object"
         /\ after.model = before.model
         /\ before.hooks => after.hooks
         /\ after.PreToolUse = before.PreToolUse
         /\ before.SessionStart => after.SessionStart
         /\ IsPrefix(before.entries, after.entries)

\* C19: after an install for Claude Code, whatever settings.json held before,
\* everything it held is still present and unchanged, and nothing was added
\* but one SessionStart entry for infra-check-update.
C19_SettingsMergeIsAdditive ==
  (ipc = "done" /\ iexit = <<0>>)
    => /\ Preserved(inst0.settingsFile, settingsFile)
       /\ settingsFile.form = "object"
            => /\ OursIn(settingsFile.entries) >= 1
               /\ Len(settingsFile.entries)
                    <= 1 + (IF inst0.settingsFile.form = "object"
                              THEN Len(inst0.settingsFile.entries) ELSE 0)

\* the files whose content, at the start of the install, is not the content
\* whose SHA-256 the previous install recorded
Customized ==
  IF inst0.manifestFile.form # "json" THEN {}
  ELSE {f \in DOMAIN inst0.manifestFile.files :
          /\ inst0.configDir[f] # "none"
          /\ inst0.manifestFile.files[f] # <<"sha256", inst0.configDir[f]>>}

\* C20: on an install over an installation with a manifest, once the backup
\* step is over the backup directory holds the start content of exactly the
\* files whose content differed from the recorded SHA-256 and is otherwise as
\* it was (no backup for an unmodified installation), and no installed file
\* is overwritten before that.
C20_BackupIffModifiedBeforeOverwrite ==
  /\ [](ipc # "patches" =>
          \A f \in InstFiles :
            patchesDir[f] = (IF f \in Customized THEN inst0.configDir[f]
                                                 ELSE inst0.patchesDir[f]))
  /\ [](ipc = "patches" => configDir = inst0.configDir)
  /\ [][configDir' # configDir =>
          \A f \in Customized : patchesDir[f] = inst0.configDir[f]]_vars

\* C20 witness: after an update over an installation of the previous version
\* with one file edited by the user and one untouched, the edited content is
\* in the backup directory and the untouched file has no backup.
C20_Witness ==
  /\ ipc = "done" /\ iexit = <<0>>
  /\ inst0.manifestFile.form = "json"
  /\ inst0.manifestFile.version = "v1"
  /\ inst0.configDir["commands/infra/audit.md"] = "user"
  /\ inst0.configDir["infra/scripts/verify.sh"] = "v1"
  /\ patchesDir["commands/infra/audit.md"] = "user"
  /\ patchesDir["infra/scripts/verify.sh"] = "none"
  /\ configDir["commands/infra/audit.md"] = "v2"

\* ===================== bin/install.js: installs and uninstalls (C21, C22)
\* install(isGlobal, false) and uninstall(isGlobal, false) run one after the
\* other on one config directory, the user editing installed files in
\* between.  Each run is one step: the installer is a single process and
\* nothing else is followed while it runs.

\* How many installs and uninstalls are followed
MaxOps == 3

\* install.js:253
PATCHES_DIR_NAME == "infra-audit-local-patches"

\* install.js:684
CACHE_FILE == "cache/infra-audit-update-check.json"

\* Files of the config directory that are not in OUR_FILES: a command of the
\* user next to the installed commands, an audit record, the cache of the
\* update check
OtherFiles == {"commands/infra/mine.md", "infra/history/audit.json", CACHE_FILE}

\* path.dirname, up to the directories followed: "." is the config
\* directory itself
Parent(p) ==
  CASE p \in {"commands/infra/audit.md", "commands/infra/mine.md"} -> "commands/infra"
    [] p \in {"infra/scripts/verify.sh"} -> "infra/scripts"
    [] p \in {"infra/blueprint.md", "infra/scripts", "infra/blueprints", "infra/history"} -> "infra"
    [] p = "infra/history/audit.json" -> "infra/history"
    [] p = CACHE_FILE -> "cache"
    [] OTHER -> "."

\* fs.readdirSync(d): what the directory d of the config directory c holds
ReadDir(c, d) ==
  {f \in InstFiles : Parent(f) = d /\ c.files[f] # "none"}
    \cup {f \in OtherFiles : Parent(f) = d /\ c.others[f] # "none"}
    \cup {e \in c.dirs : e # "." /\ Parent(e) = d}
    \cup (IF d = PATCHES_DIR_NAME THEN {f \in InstFiles : c.patches[f] # "none"} ELSE {})

\* The directory d goes with all it holds; removed records the directories
\* that held something when they went
RemoveDir(c, d) ==
  [c EXCEPT !.dirs = @ \ {d},
            !.files = [f \in InstFiles |-> IF Parent(f) = d THEN "none" ELSE @[f]],
            !.others = [f \in OtherFiles |-> IF Parent(f) = d THEN "none" ELSE @[f]],
            !.patches = IF d = PATCHES_DIR_NAME THEN [f \in InstFiles |-> "none"] ELSE @,
            !.meta = IF d = PATCHES_DIR_NAME THEN {} ELSE @,
            !.removed = IF ReadDir(c, d) # {} THEN @ \cup {d} ELSE @]

\* install.js:307-317, on the files dir, what the backup directory holds then
SavedPatches(manifest, dir, patches) ==
  IF manifest.form # "json" THEN patches
  ELSE [f \in InstFiles |-> IF f \in Modified(manifest, dir) THEN dir[f] ELSE patches[f]]

\* install.js:337-356: the files the report of local patches lists, those of
\* backup-meta.json; none when the file does not exist
reportLocalPatches(c) == c.meta

\* install.js:362-580 on the config directory c; backup-meta.json is written
\* only when this install backed up a file (lines 319-325)
InstallResult(c) ==
  LET saved == SavedPatches(c.manifest, c.files, c.patches)
      modified == IF c.manifest.form # "json" THEN {} ELSE Modified(c.manifest, c.files)
      made == {".", "commands/infra", "infra", "infra/scripts", "infra/blueprints", "hooks"}
                \cup (IF saved # c.patches THEN {PATCHES_DIR_NAME} ELSE {})
      copied == [c EXCEPT !.dirs = @ \cup made,
                          !.patches = saved,
                          !.meta = IF modified # {} THEN modified ELSE @,
                          !.files = [f \in InstFiles |-> "v2"]]
      settings == readSettings(c.settings)
  IN IF settings.form = "null"
       THEN [copied EXCEPT !.status = 1]
       ELSE [copied EXCEPT !.settings = MergeHook(settings),
                           !.manifest = ManifestOf("v2", copied.files),
                           !.status = 0]

\* install.js:617-628
dirsToCheck == <<"infra/blueprints", "infra/scripts", "infra", "commands/infra">>

\* Faulty variant of RemoveIfEmpty: the directory is removed whatever it holds.
RemoveAlways(c, d) == IF d \in c.dirs THEN RemoveDir(c, d) ELSE c

\* install.js:631-639
RemoveIfEmpty(c, d) == IF d \in c.dirs /\ ReadDir(c, d) = {} THEN RemoveDir(c, d) ELSE c

\* install.js:651-659: the SessionStart entries that hold no update-check hook
WithoutOurHook(entries) == SelectSeq(entries, LAMBDA e : ~hasOurHook(<<e>>))

\* install.js:646-679 on a settings.json that exists and holds no null
RemoveHook(file) ==
  LET settings == readSettings(file)
      kept == WithoutOurHook(settings.entries)
      left == [settings EXCEPT !.entries = kept,
                               !.SessionStart = kept # <<>>,
                               !.hooks = (kept # <<>> \/ settings.PreToolUse)]
  IN IF settings.hooks /\ settings.SessionStart /\ Len(kept) < Len(settings.entries)
       THEN left
       ELSE file

\* install.js:586-709 on the config directory c
UninstallResult(c) ==
  IF "." \notin c.dirs THEN [c EXCEPT !.status = 0]
  ELSE
    LET unlinked == [c EXCEPT !.files = [f \in InstFiles |-> "none"],
                              !.manifest = [form |-> "absent"]]
        d1 == RemoveIfEmpty(unlinked, dirsToCheck[1])
        d2 == RemoveIfEmpty(d1, dirsToCheck[2])
        d3 == RemoveIfEmpty(d2, dirsToCheck[3])
        d4 == RemoveIfEmpty(d3, dirsToCheck[4])
    IN IF c.settings.form = "null"
         THEN [d4 EXCEPT !.status = 1]
         ELSE
           LET s == [d4 EXCEPT !.settings = IF @.form = "absent" THEN @ ELSE RemoveHook(@),
                               !.others = [@ EXCEPT ![CACHE_FILE] = "none"]]
           IN [(IF PATCHES_DIR_NAME \in s.dirs THEN RemoveDir(s, PATCHES_DIR_NAME) ELSE s)
                 EXCEPT !.status = 0]

\* Before the first run the config directory holds no installation or one
\* of the previous version, any settings.json and any of the other files;
\* it may not exist when it would hold nothing. The two things that do not
\* meet in the code vary one at a time: SessionStart entries in settings.json
\* (read at install.js:503-540 and 642-681 only) with none of the other
\* files there, the other files with a settings.json without such entries.
InitLifecycle ==
  /\ VerifyIdle /\ CaptureIdle /\ VersionsIdle /\ TwoRunsIdle /\ DetectIdle /\ InstallIdle
  /\ RaceIdle /\ CoverageIdle /\ LateIdle
  /\ \E v \in {"none", "v1"}, o \in [OtherFiles -> {"none", "user"}],
        s \in SettingsFiles, root \in BOOLEAN :
       LET files == [f \in InstFiles |-> v]
           ds == {Parent(f) : f \in {g \in InstFiles : files[g] # "none"}}
                   \cup {Parent(f) : f \in {g \in OtherFiles : o[g] # "none"}}
       IN
         /\ (~root => (v = "none" /\ s.form = "absent" /\ \A f \in OtherFiles : o[f] = "none"))
         /\ ((\A f \in OtherFiles : o[f] = "none")
               \/ (IF s.form = "object" THEN s.entries = <<>> ELSE TRUE))
         /\ lc = [dirs |-> ds \cup {Parent(d) : d \in ds} \cup (IF root THEN {"."} ELSE {})
                             \cup (IF v = "v1" THEN {"infra/blueprints", "hooks"} ELSE {}),
                  files |-> files,
                  manifest |-> IF v = "v1" THEN ManifestOf(v, files) ELSE [form |-> "absent"],
                  patches |-> [f \in InstFiles |-> "none"],
                  meta |-> {},
                  others |-> o,
                  settings |-> s,
                  removed |-> {},
                  status |-> 0]
  /\ lc0 = lc
  /\ lcOps = [n |-> 0, last |-> "none"]

lifecycleFrame == <<verifyVars, captureVars, versionVars, twoRunVars, detectVars, installVars,
                    raceVars, cov, lateVars, lc0>>

\* node bin/install.js --claude
Install ==
  /\ lcOps.n < MaxOps
  /\ lc' = InstallResult(lc)
  /\ lcOps' = [n |-> lcOps.n + 1, last |-> "install"]
  /\ UNCHANGED lifecycleFrame

\* node bin/install.js --claude --uninstall
Uninstall ==
  /\ lcOps.n < MaxOps
  /\ lc' = UninstallResult(lc)
  /\ lcOps' = [n |-> lcOps.n + 1, last |-> "uninstall"]
  /\ UNCHANGED lifecycleFrame

\* The user customizes an installed file (README.md:139-141)
UserEdit(f) ==
  /\ lc.files[f] \notin {"none", "user"}
  /\ lc' = [lc EXCEPT !.files[f] = "user"]
  /\ UNCHANGED <<lifecycleFrame, lcOps>>

NextLifecycle ==
  \/ Install
  \/ Uninstall
  \/ \E f \in InstFiles : UserEdit(f)

SpecLifecycle == InitLifecycle /\ [][NextLifecycle]_vars

UserFiles == OtherFiles \ {CACHE_FILE}

\* C21 as stated: after any sequence of installs and uninstalls every file
\* that is not in the installer's file list exists with the content it had,
\* settings.json, the update-check cache and the backups included, and no
\* directory was removed while it held something.
C21_AllOtherFilesUntouched ==
  /\ \A f \in OtherFiles : lc.others[f] = lc0.others[f]
  /\ lc.settings = lc0.settings
  /\ lc.removed = {}

\* C21 amended: after any sequence of installs and uninstalls every file
\* other than the installer's file list, settings.json, the update-check
\* cache and the backup directory exists with the content it had, in
\* particular the audit history, together with the directory it is in; of
\* the directories only the backup directory is ever removed while it holds
\* something.
C21_UserFilesUntouched ==
  /\ \A f \in UserFiles :
       /\ lc.others[f] = lc0.others[f]
       /\ lc.others[f] # "none" => Parent(f) \in lc.dirs
  /\ lc.removed \subseteq {PATCHES_DIR_NAME}

\* C21 witness: after an install and an uninstall the user's command and the
\* audit record are there in their directories, the installed command next
\* to the former is gone, as is the emptied scripts directory.
C21_Witness ==
  /\ lcOps = [n |-> 2, last |-> "uninstall"]
  /\ lc.status = 0
  /\ lc0.files["commands/infra/audit.md"] = "none"
  /\ lc.others["commands/infra/mine.md"] = "user"
  /\ lc.others["infra/history/audit.json"] = "user"
  /\ lc.files["commands/infra/audit.md"] = "none"
  /\ {"commands/infra", "infra/history", "infra"} \subseteq lc.dirs
  /\ "infra/scripts" \notin lc.dirs

OtherHooks(file) ==
  IF file.form # "object" THEN 0
  ELSE Cardinality({i \in DOMAIN file.entries : file.entries[i] \in {"other", "shared"}})

\* C22: an uninstall takes nothing from settings.json but the update-check
\* hook: a file that does not hold an object is left as it is, and of an
\* object the other top-level key, the hook of another event and every other
\* SessionStart hook are still there, also the one that shares its entry
\* with the update-check hook.
C22_UninstallKeepsOtherHooks ==
  [][(lcOps' # lcOps /\ lcOps'.last = "uninstall" /\ lc'.status = 0)
       => /\ lc.settings.form # "object" => lc'.settings = lc.settings
          /\ lc.settings.form = "object"
               => /\ lc'.settings.form = "object"
                  /\ lc'.settings.model = lc.settings.model
                  /\ lc'.settings.PreToolUse = lc.settings.PreToolUse
                  /\ OtherHooks(lc'.settings) = OtherHooks(lc.settings)]_vars

\* ==================================================== verify.sh (C23, C24)

\* C23: in a git project whose tree had an uncommitted change (staged,
\* unstaged or untracked) at entry, whenever a tool is started the snapshot
\* of the entry state has been taken: its entry is on the stash.
C23_SnapshotBeforeFirstTool ==
  [][(fs["HAS_GIT"] /\ Dirty0 /\ \E n \in Tools : launches'[n] > launches[n])
       => (stash # <<>> /\ Head(stash) = StashEntry(idx0, wt0))]_vars

TestsRunning == job["test_collect"] = "running" \/ job["pytest"] = "running"

\* C24: pytest is started only once pytest --collect-only has ended by itself
\* with exit code 0, whatever the other jobs do meanwhile; and while the
\* collection or pytest runs, nothing else waits for it: the main script goes
\* on to start Group 3, every running Group 1 tool can end and Group 3 can
\* do its reads.
C24_CollectThenRunUnblocked ==
  /\ Launched("pytest")
       => (job["test_collect"] = "done" /\ procExit["test_collect"] = <<0>>
             /\ exitFile["test_collect"] = <<0>>)
  /\ TestsRunning
       => /\ pc = "group3" => ENABLED LaunchGroup3
          /\ \A n \in RunTools : job[n] = "running" => ENABLED ToolExit(n, 0)
          /\ job["group3"] = "running" => ENABLED Group3Run

\* C24 witness: pytest runs after a collection that exited 0 while ruff check
\* and Group 3 have already ended and ruff format still runs.
C24_Witness ==
  /\ job["pytest"] = "running"
  /\ procExit["test_collect"] = <<0>>
  /\ job["ruff_check"] = "done"
  /\ job["ruff_format"] = "running"
  /\ job["group3"] = "done"

\* ============================== the concurrent units and the tree (C25)
\* One run of verify.sh from the launches on (verify.sh:96-301), with what
\* each check-mode tool finds in the project files.  The project is fixed
\* for the run: fixable says whether a hook of pre-commit rewrites the
\* files, sensitive holds the check-mode tools whose verdict on the rewritten
\* files differs from their verdict on the files as they were.  A file
\* content is "entry" (as at the launches) or "tool" (rewritten by a hook).

CheckMode == Tools \ Mutating

\* The exit code of check-mode tool n on files of the given content: the
\* tools that find what a hook would repair fail until it is repaired
ExitOn(project, n, content) == IF n \in project.sensitive /\ content = "entry" THEN 1 ELSE 0

\* verify.sh:97-120: the tools that are background jobs after the launches
LaunchedAtStart(in) ==
  (IF LaunchesRuff(in.fs) THEN {"ruff_check", "ruff_format"} ELSE {})
    \cup (IF PyrightCmd(in.fs, in.node, in.npx) # "none" THEN {"pyright"} ELSE {})
    \cup (IF LaunchesPreCommit(in.fs) THEN {"pre_commit"} ELSE {})
    \cup (IF LaunchesTests(in.fs) THEN {"test_collect"} ELSE {})

InitRace ==
  /\ VerifyIdle /\ CaptureIdle /\ VersionsIdle /\ TwoRunsIdle /\ DetectIdle /\ InstallIdle
  /\ LifecycleIdle /\ CoverageIdle /\ LateIdle
  /\ raceIn \in {in \in [fs : {f \in FactSheets : ~ShouldSkip(f)}, node : BOOLEAN, npx : BOOLEAN,
                         fixable : BOOLEAN, sensitive : SUBSET CheckMode] :
                   /\ in.sensitive \subseteq LaunchedAtStart(in) \cup {"pytest"}
                   /\ ("pytest" \in in.sensitive => "test_collect" \in LaunchedAtStart(in))
                   /\ (in.fs["HAS_PYRIGHT"] /\ ~in.fs["PYRIGHT_IN_VENV"]) \/ (~in.node /\ ~in.npx)}
  /\ race = [tree |-> "entry",
             job |-> [n \in Tools |-> IF n \in LaunchedAtStart(raceIn) THEN "running" ELSE "idle"],
             exitFile |-> [n \in Tools |-> <<>>],
             checked |-> [n \in Tools |-> "none"],
             report |-> NoReport]

raceFrame == <<verifyVars, captureVars, versionVars, twoRunVars, detectVars, installVars,
               lifecycleVars, cov, lateVars, raceIn>>

\* A hook of pre-commit run --all-files rewrites the files (verify.sh:9-10, 113)
HookWrites ==
  /\ race.job["pre_commit"] = "running"
  /\ raceIn.fixable
  /\ race.tree = "entry"
  /\ race' = [race EXCEPT !.tree = "tool"]
  /\ UNCHANGED raceFrame

\* verify.sh:84-85 for pre-commit: it ends once its hooks have run, with 1
\* when a hook modified files
HookExit ==
  /\ race.job["pre_commit"] = "running"
  /\ raceIn.fixable => race.tree = "tool"
  /\ race' = [race EXCEPT !.job["pre_commit"] = "done",
                          !.exitFile["pre_commit"] = <<IF raceIn.fixable THEN 1 ELSE 0>>]
  /\ UNCHANGED raceFrame

\* verify.sh:84-85, 120-135: a check-mode tool reads the files as they are
\* and ends with its verdict on them; after a collection that exited 0 the
\* subshell goes on with pytest
CheckExit(n) ==
  /\ n \in CheckMode
  /\ race.job[n] = "running"
  /\ LET ec == ExitOn(raceIn, n, race.tree)
         next == IF n = "test_collect" /\ RunsPytestAfter(ec) THEN {"pytest"} ELSE {}
     IN race' = [race EXCEPT !.job = [m \in Tools |-> IF m = n THEN "done"
                                                      ELSE IF m \in next THEN "running"
                                                      ELSE @[m]],
                             !.exitFile[n] = <<ec>>,
                             !.checked[n] = race.tree]
  /\ UNCHANGED raceFrame

\* verify.sh:193-301: after the join the report is assembled
RaceReport ==
  /\ race.report = NoReport
  /\ \A n \in Tools : race.job[n] # "running"
  /\ race' = [race EXCEPT !.report = Result(race.exitFile)]
  /\ UNCHANGED raceFrame

NextRace ==
  \/ HookWrites
  \/ HookExit
  \/ \E n \in CheckMode : CheckExit(n)
  \/ RaceReport

SpecRace == InitRace /\ [][NextRace]_vars

\* The entry of check-mode tool n in the report of the interleaving in which
\* every check-mode tool has ended before a hook writes
EntryFirst(n) ==
  IF n \in LaunchedAtStart(raceIn)
       \/ (n = "pytest" /\ "test_collect" \in LaunchedAtStart(raceIn)
             /\ RunsPytestAfter(ExitOn(raceIn, "test_collect", "entry")))
    THEN tool_result(<<ExitOn(raceIn, n, "entry")>>)
    ELSE tool_result(<<>>)

\* C25: for a fixed project and Fact Sheet the report entry of every
\* check-mode tool is the same in every interleaving of the units: it is the
\* entry of the interleaving in which the tool has ended before pre-commit
\* rewrites a file.
C25_ReportSameInEveryInterleaving ==
  race.report # NoReport
    => \A n \in CheckMode : race.report.tools[n] = EntryFirst(n)

\* ============================================ capture files (C26)

\* Faulty variant of CaptureFilesOf: run_tool names its files without the
\* name of the tool.
CaptureFilesShared(j) ==
  CASE j \in RunTools -> {"tool.out", "tool.exit", "tool.out.tmp"}
    [] j = "test_collect" -> {"test_collect.out", "test_collect.exit"}
    [] j = "pytest" -> {"pytest.out", "pytest.exit", "pytest.out.tmp"}
    [] j = "group3" -> {"precommit_ruff_ver", "ci_ruff_ver", "hooks_registered"}

\* verify.sh:82-90, 120-139, 187-189: the files of $RESULTS_DIR that job j
\* writes
CaptureFilesOf(j) ==
  CASE j \in RunTools -> {j \o ".out", j \o ".exit", j \o ".out.tmp"}
    [] j = "test_collect" -> {"test_collect.out", "test_collect.exit"}
    [] j = "pytest" -> {"pytest.out", "pytest.exit", "pytest.out.tmp"}
    [] j = "group3" -> {"precommit_ruff_ver", "ci_ruff_ver", "hooks_registered"}

StartedJobs == {j \in Jobs : job[j] # "idle"}

\* C26: no file of the results directory is written by two of the jobs that
\* verify.sh has started, and an exit-code file that exists was written by
\* the tool it is named after, which was started in this run.
C26_CaptureFilesUnshared ==
  /\ \A j \in StartedJobs, k \in StartedJobs :
       j # k => CaptureFilesOf(j) \cap CaptureFilesOf(k) = {}
  /\ \A n \in Tools :
       exitFile[n] # <<>> => (Launched(n) /\ (n \o ".exit") \in CaptureFilesOf(n))

\* C26 witness: ruff check has written its exit code while ruff format, the
\* collection and Group 3 are running.
C26_Witness ==
  /\ exitFile["ruff_check"] = <<1>>
  /\ exitFile["ruff_format"] = <<>>
  /\ job["ruff_format"] = "running"
  /\ job["test_collect"] = "running"
  /\ job["group3"] = "running"

\* ============================================ Python version (C27)

PythonEntries == {i \in DOMAIN version_mismatches : version_mismatches[i].tool = "python"}

\* the files of ci_files that name one Python version with major and minor
PinsPython == {i \in DOMAIN versionIn.ci_files :
                 /\ versionIn.ci_files[i].form \in {"plain", "dq", "sq"}
                 /\ Len(versionIn.ci_files[i].ver) >= 2}

\* C27: the report holds one python mismatch when the local Python version
\* is known, a file of ci_files names a Python version, and the first such
\* version differs from the local one in major or minor; it holds none
\* otherwise, in particular when the two differ in the patch version only.
C27_PythonMajorMinorOnly ==
  vpc = "reported"
    => LET local == versionIn.python
           first == IF PinsPython = {} THEN <<>>
                    ELSE versionIn.ci_files[CHOOSE i \in PinsPython :
                                              \A k \in PinsPython : i <= k].ver
           differ == /\ local # <<>>
                     /\ first # <<>>
                     /\ (local[1] # first[1] \/ local[2] # first[2])
       IN /\ Cardinality(PythonEntries) = (IF differ THEN 1 ELSE 0)
          /\ \A i \in PythonEntries :
               /\ version_mismatches[i].type = "venv_vs_ci"
               /\ version_mismatches[i].local = <<local[1], local[2]>>
               /\ version_mismatches[i].pinned = <<first[1], first[2]>>

\* C27 witness: a report without python mismatch for a local 3.11.4 and a
\* workflow that pins "3.11.9", found after a file that holds a list.
C27_Witness ==
  /\ vpc = "reported"
  /\ versionIn.python = <<3, 11, 4>>
  /\ versionIn.ci_files = <<[form |-> "list"], [form |-> "dq", ver |-> <<3, 11, 9>>]>>
  /\ version_mismatches = <<>>

\* ============================================ report entries (C28)

\* The process of tool n has run: it ended by itself or timeout ended it
Executed(n) == EndedByItself(n) \/ n \in timedOut

\* C28: in a report the entry of a tool has status skip and a null exit code
\* if and only if the tool was not executed in the run; for a tool that was
\* executed the exit code of the entry is the exit code its process ended
\* with, and the status is pass exactly when that code is 0.
C28_SkipIffNotExecuted ==
  Reported
    => \A n \in Tools :
         /\ (report.tools[n].status = "skip" /\ report.tools[n].exit_code = <<>>)
              <=> ~Executed(n)
         /\ Executed(n)
              => /\ report.tools[n].exit_code = procExit[n]
                 /\ (report.tools[n].status = "pass") <=> (procExit[n] = <<0>>)

\* ------------------------------------------------------------ coverage percentage
\* verify.sh:231-245.  The report takes the coverage percentage out of the
\* output kept for pytest: the first line that contains TOTAL, and in it the
\* last word that ends with a percent sign.

MaxCovLines == 3

\* A line of pytest's output is the sequence of its words (line.split()).
\* 'TOTAL' in line: the line has a word that contains TOTAL
HasTOTAL(line) == \E i \in DOMAIN line : line[i] \in {"TOTAL", "src/TOTALS.py"}
\* p.endswith('%')
EndsWithPercent(p) == p \in {"91%", "10%", "91.50%"}
\* int(p.rstrip('%')): <<>> when it raises ValueError
IntOf(p) == CASE p = "91%" -> <<91>>
              [] p = "10%" -> <<10>>
              [] OTHER -> <<>>

\* Lines pytest prints: the result line, the row of the coverage table for a
\* file, its last row (without and with the Missing column, and with two
\* decimals), and a line of a traceback.
CovLines == {<<"3", "passed">>,
             <<"src/TOTALS.py", "100", "9", "10%">>,
             <<"TOTAL", "100", "9", "91%">>,
             <<"TOTAL", "100", "9", "91%", "3-5">>,
             <<"TOTAL", "100", "9", "91.50%">>,
             <<"assert", "TOTAL">>}

\* the last row of the coverage table
IsSummaryLine(line) == line[1] = "TOTAL"

\* verify.sh:236-243: the last word of the line that ends with a percent sign
PercentOfLine(line) ==
  LET ps == {i \in DOMAIN line : EndsWithPercent(line[i])} IN
    IF ps = {} THEN <<>>
    ELSE IntOf(line[CHOOSE i \in ps : \A j \in ps : j <= i])

\* verify.sh:232-244: only the first line that contains TOTAL is looked at;
\* <<>> is None
coverage_pct(output) ==
  LET ts == {i \in DOMAIN output : HasTOTAL(output[i])} IN
    IF ts = {} THEN <<>>
    ELSE PercentOfLine(output[CHOOSE i \in ts : \A j \in ts : i <= j])

\* verify.sh:211-221, the output field: '' without an exit file
pytest_output(c) == IF c.exit = <<>> THEN <<>> ELSE c.out

\* pytest.exit and pytest.out when the report is assembled: no file when
\* pytest was not run, and at most one coverage table in what pytest printed
InitCoverage ==
  /\ VerifyIdle /\ CaptureIdle /\ VersionsIdle /\ TwoRunsIdle /\ DetectIdle /\ InstallIdle
  /\ LifecycleIdle /\ RaceIdle /\ LateIdle
  /\ \E e \in {<<>>, <<0>>, <<1>>}, n \in 0..MaxCovLines :
       \E o \in [1..n -> CovLines] :
         /\ (e = <<>> => n = 0)
         /\ Cardinality({i \in 1..n : IsSummaryLine(o[i])}) <= 1
         /\ cov = [exit |-> e, out |-> o, pc |-> "results", coverage_pct |-> <<>>]

coverageFrame == <<verifyVars, captureVars, versionVars, twoRunVars, detectVars, installVars,
                   lifecycleVars, raceVars, lateVars>>

\* verify.sh:229-245
ExtractCoverage ==
  /\ cov.pc = "results"
  /\ cov' = [cov EXCEPT !.pc = "extracted", !.coverage_pct = coverage_pct(pytest_output(cov))]
  /\ UNCHANGED coverageFrame

SpecCoverage == InitCoverage /\ [][ExtractCoverage]_vars

\* the rows of the output that are the total of a coverage table
SummaryLines(output) == {i \in DOMAIN output : IsSummaryLine(output[i])}

\* C29: the coverage percentage of the pytest entry is the integer percentage
\* of the total-coverage summary line when the kept output of an executed
\* pytest has one with an integer percentage, and null when pytest was skipped
\* or the output has no such line.
C29_CoverageOfSummaryLine ==
  cov.pc = "extracted" =>
    LET ss == {i \in SummaryLines(cov.out) : PercentOfLine(cov.out[i]) # <<>>} IN
      IF cov.exit # <<>> /\ ss # {}
      THEN \E i \in ss : cov.coverage_pct = PercentOfLine(cov.out[i])
      ELSE cov.coverage_pct = <<>>

\* ------------------------------------------------------------ no version control

C31_VersionsOnlyFromVenv ==
  dpc = "done" =>
    /\ dexit = <<1>> => PythonBlockRaises(proj)
    /\ dexit = <<0>> =>
         /\ factSheet.venv_tools.ruff # "null" => (proj.venv /\ proj.ruffExe)
         /\ factSheet.venv_tools.pyright # "null" => (proj.venv /\ proj.pyrightExe = "ok")
         /\ ~proj.venv => (factSheet.venv_tools.ruff = "null" /\ factSheet.venv_tools.pyright = "null")

\* ------------------------------------------------------------ example files

\* the shapes of an example file that audit.md names for an env config file
Documented(f) == CASE f = ".env" -> {"example.env"}
                   [] f = "config.json" -> {"config.example.json", "config.json.example"}
                   [] OTHER -> {}

\* C32: has_example is true when, for a detected env config file, an example
\* file of a documented shape exists (example.env for .env,
\* config.example.json or config.json.example for config.json), and false
\* when no detected file has an example file of any shape.
C32_HasExampleAsDocumented ==
  (dpc = "done" /\ dexit = <<0>>) =>
    LET found == {factSheet.env.config_files[i] : i \in DOMAIN factSheet.env.config_files} IN
      /\ (\E f \in found : Documented(f) \cap proj.examples # {}) => factSheet.env.has_example
      /\ (\A f \in found : (Documented(f) \cup candidates(f)) \cap proj.examples = {})
           => ~factSheet.env.has_example

\* ------------------------------------------------------------ consecutive installs

\* the SessionStart entries of settings.json that hold the update-check hook
OurEntries(file) == IF file.form # "object" THEN 0 ELSE OursIn(file.entries)

\* C33: after every Claude Code install the SessionStart list of
\* settings.json has exactly one entry with the update-check hook, and an
\* install that follows an install leaves settings.json as it was.
C33_InstallIdempotentOnSettings ==
  [][(lcOps' # lcOps /\ lcOps'.last = "install")
       => /\ OurEntries(lc'.settings) = 1
          /\ lcOps.last = "install" => lc'.settings = lc.settings]_vars

\* ------------------------------------------------------------ pyright hand-over

\* C34: on a Fact Sheet of detect.sh with the pyright area, the pyright that
\* verify.sh starts exists: .venv/bin/pyright is started only when it is an
\* executable file, and when detect.sh took the version from
\* node_modules/.bin/pyright because .venv/bin/pyright printed none, verify.sh
\* starts node_modules/.bin/pyright.
C34_PyrightStartedExists ==
  (dpc = "verified" /\ factSheet.areas.pyright) =>
    /\ pyrightRun = "venv" => proj.pyrightExe = "ok"
    /\ pyrightRun = "node_modules" => proj.nodePyright
    /\ (factSheet.venv_tools.pyright # "null" /\ proj.pyrightExe # "ok")
         => pyrightRun = "node_modules"

\* ------------------------------------------------------------ the tree the tools see

NoneLaunched == \A n \in Tools : launches[n] = 0

AgentReads ==
  /\ pc \notin {"start", "done"}
  /\ LET seen == IF wt = wt0 THEN "entry" ELSE "changed" IN
       /\ seen \notin agentSaw
       /\ agentSaw' = agentSaw \cup {seen}
  /\ UNCHANGED <<verifyVars, captureVars, versionVars, twoRunVars, detectVars, installVars,
                 lifecycleVars, raceVars, cov, pyrightRun, subDirty>>

NextAudit == Next \/ AgentReads

SpecAudit == Init /\ [][NextAudit]_vars

\* C36: while verify.sh runs, no read of a sub-agent meets a working tree
\* that differs from the tree at entry.
C36_AgentsSeeEntryTree == "changed" \notin agentSaw

\* ------------------------------------------------------------ the stash stack
\* A project that may have a stash entry of the user's from before the run,
\* and a submodule with uncommitted changes.

UserStash == [msg |-> "my wip", idx |-> "head",
              wt |-> [f \in Files |-> IF f = TRACKED THEN "user" ELSE "none"]]

InitStash ==
  /\ InitRun
  /\ LifecycleIdle /\ RaceIdle /\ CoverageIdle
  /\ pyrightRun = "off" /\ agentSaw = {}
  /\ fs["HAS_GIT"]
  /\ subDirty \in BOOLEAN
  /\ stash \in {<<>>, <<UserStash>>}
  /\ stash0 = stash

SpecStash == InitStash /\ [][Next]_vars

\* C37: cleanup runs git stash pop exactly when the git stash push of this
\* run succeeded, and after the run the stash stack is the one from before
\* the run: the entry popped is the one this run pushed, and an entry that
\* was there before is neither popped nor dropped.
C37_PopsOnlyOwnEntry ==
  pc = "done" =>
    /\ ("stash_pop" \in gitOps) <=> STASH_CREATED
    /\ stash = stash0

\* ------------------------------------------------------------ install, then uninstall

\* C38: for a settings.json that holds a JSON object without the
\* update-check hook, also one with an empty hooks object or an empty
\* SessionStart list, the content after an install and the uninstall that
\* follows it is the content before the install.
C38_InstallUninstallRoundTrip ==
  [][(/\ lcOps = [n |-> 1, last |-> "install"]
      /\ lcOps' = [n |-> 2, last |-> "uninstall"]
      /\ lc0.settings.form = "object"
      /\ OurEntries(lc0.settings) = 0)
       => lc'.settings = lc0.settings]_vars

\* ------------------------------------------------------------ report of local patches

\* C39: after an install the report of local patches lists exactly the
\* files this install backed up: nothing when it found no modified file,
\* also when an earlier install had backed up files.
C39_ReportsOwnBackups ==
  [][(lcOps' # lcOps /\ lcOps'.last = "install" /\ lc'.status = 0)
       => reportLocalPatches(lc') = (IF lc.manifest.form # "json" THEN {}
                                     ELSE Modified(lc.manifest, lc.files))]_vars

====
